---- MODULE Spec2Model ----
(***************************************************************************)
(* SmartAccountProvider (site/smart-accounts/signers/capsule.md, the       *)
(* provider listing): the user-operation construction pipeline, the fee    *)
(* bid, the validation gate, signing/submission and the confirmation       *)
(* poller, as one state machine of a provider instance serving one entry   *)
(* point call at a time; the same provider used through request and with   *)
(* several submissions in flight; and the onboarding example built on it   *)
(* (examples/alchemy-daapp, OnboardingController.ts).                      *)
(***************************************************************************)
EXTENDS Integers, Sequences, FiniteSets, TLC

VARIABLES
    account,    \* this.account: "none" or the bound account
    opts,       \* txMaxRetries, txRetryIntervalMs, minPriorityFeePerBid,
                \* entryPointAddress and chain as set by the constructor
    mw,         \* the four middleware properties of the instance
    pc,         \* position of the entry point call in progress
    call,       \* the entry point called and its arguments
    pipe,       \* the stage functions handed to asyncPipe for this submission
    stage,      \* index of the pipeline stage being run
    struct,     \* the UserOperationStruct being filled
    request,    \* the hexlified request (Unset until validation)
    prio,       \* feeDataGetter's local maxPriorityFeePerGas
    i,          \* waitForUserOperationTransaction's loop counter
    feeData,    \* feeDataGetter's local feeData
    hash,       \* the submission hash the bundler returned
    receipt,    \* the receipt found by the poller (its transactionHash)
    queried,    \* the hash getTransaction was asked for
    transaction,\* the transaction getTransaction resolved to
    answers,    \* receipt lookups of this call answered, by kind of answer
    outcome,    \* how the entry point call ended
    calls,      \* how often each collaborator method was invoked by this call
    log,        \* begin/end events of the steps of this submission
    budget,     \* withX calls still allowed by the bound
    polled,     \* the hashes getUserOperationReceipt was asked for by this call
    forwarded,  \* the arguments rpcClient.request was called with by this call
    subs,       \* the sendUserOperation calls in flight together, each with
                \* its position, its locals and the reference to its draft
    heap,       \* the draft objects those calls have created
    since,      \* the stages overridden between the entry of the submission in
                \* progress and the composition of its pipeline
    currentStep,    \* useOnboardingOrchestrator: the React state currentStep
                    \* (identifier and context)
    inMemStep,      \* go's local inMemStep (Unset while no go is running)
    at,             \* position of the go in progress
    resolved,       \* the { nextStep, addedContext } a handler resolved to
    txnRetryCount,  \* pollForLambdaForComplete's local txnRetryCount
    reciept,        \* pollForLambdaForComplete's local reciept
    goOutcome,      \* how the last go to settle settled
    localStorage,   \* the browser's localStorage (owner address -> wallet)
    runsLeft,       \* go calls still allowed by the bound
    visited,        \* the identifiers whose handler this go has invoked
    began,          \* per identifier, handler invocations since the last reset
    threw,          \* per identifier, handler rejections since the last reset
    attempts,       \* lambda invocations of the poll in progress
    falses,         \* false results of the lambda in the poll in progress
    waits           \* one-second waits completed in the poll in progress

vars == <<account, opts, mw, pc, call, pipe, stage, struct, request, prio,
          feeData, hash, i, receipt, queried, transaction, answers,
          outcome, calls, log, budget, polled, forwarded, subs, heap,
          since, currentStep, inMemStep, at, resolved, txnRetryCount, reciept,
          goOutcome, localStorage, runsLeft, visited, began, threw, attempts,
          falses, waits>>

----------------------------------------------------------------------------
(* Bounds of the model *)

MaxTxRetries == 1
MaxSuggestedFee == 3
MaxOverrides == 1
MaxSubmissions == 2
MaxRuns == 2

(* Program constants *)

DefaultTxMaxRetries == 5
DefaultTxRetryIntervalMs == 2000
DefaultMinPriorityFeePerBid == 1000000000
DefaultTxnMaxDurationSeconds == 20
FillMaxDurationSeconds == 300

----------------------------------------------------------------------------
(* Optional values: a property that is undefined, or holds v *)

Unset == <<>>
Some(v) == <<v>>
IsSet(o) == o # Unset
Val(o) == o[1]

(* BigInt division truncates toward zero *)
BigIntDiv(a, b) ==
    IF a >= 0 THEN a \div b ELSE -((-a) \div b)

(* JavaScript truthiness of an optional number: undefined and 0 are falsy *)
Truthy(o) == IsSet(o) /\ Val(o) # 0

----------------------------------------------------------------------------
(* Values the collaborators and the callers supply *)

Account == "acct"
Address == "0xA"
Targets == {"0xT"}
SuggestedFees == 0..MaxSuggestedFee
FeeDataValues == {Unset, Some(0), Some(1), Some(2)}
FeeDatas == [maxFeePerGas : FeeDataValues, maxPriorityFeePerGas : FeeDataValues]
MinBids == {1, DefaultMinPriorityFeePerBid}
TxMaxRetriesChoices == (0..MaxTxRetries) \cup {DefaultTxMaxRetries}
TxHashes == {"0xtx1", "0xtx2"}
UoHash == "0xuo"
InitCode == "0xinit"
GasEstimate == [callGasLimit |-> 100, verificationGasLimit |-> 200,
                preVerificationGas |-> 300]

(* Implementations a middleware property can hold: the class's own, the
   exported noOpMiddleware, or a caller's function that fills the stage's
   fields itself *)
Overrides == {"noOp", "custom"}

CallNames == {"getInitCode", "getAddress", "getNonce", "encodeExecute",
              "getDummySignature", "signMessage",
              "estimateUserOperationGas", "getMaxPriorityFeePerGas",
              "getFeeData", "sendUserOperation", "getUserOperationReceipt",
              "getTransaction", "request"}

NoCalls == [c \in CallNames |-> 0]
NoAnswers == [receipt |-> 0, null |-> 0, error |-> 0]
Invoke(cs, names) == [c \in CallNames |-> IF c \in names THEN cs[c] + 1 ELSE cs[c]]

----------------------------------------------------------------------------
(* UserOperationStruct *)

EmptyStruct ==
    [sender |-> Unset, nonce |-> Unset, initCode |-> Unset, callData |-> Unset,
     callGasLimit |-> Unset, verificationGasLimit |-> Unset,
     preVerificationGas |-> Unset, maxFeePerGas |-> Unset,
     maxPriorityFeePerGas |-> Unset, paymasterAndData |-> Unset,
     signature |-> Unset]

NumericFields == {"nonce", "callGasLimit", "verificationGasLimit",
                  "preVerificationGas", "maxFeePerGas", "maxPriorityFeePerGas"}

(* the struct sendUserOperation hands to the pipeline *)
InitialStruct(initCode, target, value, data) ==
    [EmptyStruct EXCEPT
        !.initCode = Some(initCode),
        !.sender = Some(Address),
        !.nonce = Some(0),
        !.callData = Some(<<target, value, data>>),
        !.signature = Some("0xdummy")]

(* value ?? 0n *)
ValueOrZero(v) == IF IsSet(v) THEN Val(v) ELSE 0

----------------------------------------------------------------------------
(* The default middleware *)

dummyPaymasterDataMiddleware(s) == [s EXCEPT !.paymasterAndData = Some("0x")]

(* a final paymaster stage that returns the draft as it got it *)
paymasterMiddlewareKeeps(s) == s

paymasterMiddleware(s) == [s EXCEPT !.paymasterAndData = Some("0x")]

noOpMiddleware(s) == s

gasEstimatorWrite(s, est) ==
    [s EXCEPT !.callGasLimit = Some(est.callGasLimit),
              !.verificationGasLimit = Some(est.verificationGasLimit),
              !.preVerificationGas = Some(est.preVerificationGas)]

(* feeDataGetter: the check of the fee data, the two bids, the writes *)
feeDataMissing(fd) == ~Truthy(fd.maxFeePerGas) \/ ~Truthy(fd.maxPriorityFeePerGas)

(* the premium applied after the division *)
maxPriorityFeePerGasBidDivFirst(suggested, minBid) ==
    LET bid == BigIntDiv(suggested, 3) * 4
    IN  IF bid < minBid THEN minBid ELSE bid

maxPriorityFeePerGasBid(suggested, minBid) ==
    LET bid == BigIntDiv(suggested * 4, 3)
    IN  IF bid < minBid THEN minBid ELSE bid

maxFeePerGasBid(fd, priorityBid) ==
    Val(fd.maxFeePerGas) - Val(fd.maxPriorityFeePerGas) + priorityBid

(* the suggested fee written as priority fee in place of the bid *)
feeDataGetterWriteSuggested(s, suggested, fd, minBid) ==
    LET priorityBid == maxPriorityFeePerGasBid(suggested, minBid)
    IN  [s EXCEPT !.maxFeePerGas = Some(maxFeePerGasBid(fd, priorityBid)),
                  !.maxPriorityFeePerGas = Some(suggested)]

feeDataGetterWrite(s, suggested, fd, minBid) ==
    LET priorityBid == maxPriorityFeePerGasBid(suggested, minBid)
    IN  [s EXCEPT !.maxFeePerGas = Some(maxFeePerGasBid(fd, priorityBid)),
                  !.maxPriorityFeePerGas = Some(priorityBid)]

(* A caller's own stage: fills the fields of its stage with its own values *)
customMiddleware(name, s) ==
    CASE name = "gasEstimator" ->
            [s EXCEPT !.callGasLimit = Some(1), !.verificationGasLimit = Some(2),
                      !.preVerificationGas = Some(3)]
      [] name = "feeDataGetter" ->
            [s EXCEPT !.maxFeePerGas = Some(9), !.maxPriorityFeePerGas = Some(1)]
      [] OTHER -> [s EXCEPT !.paymasterAndData = Some("0xPM")]

(* stages that complete without a bundler call *)
runSync(name, impl, s) ==
    CASE impl = "noOp" -> noOpMiddleware(s)
      [] impl = "custom" -> customMiddleware(name, s)
      [] impl = "default" /\ name = "dummyPaymasterDataMiddleware" ->
            dummyPaymasterDataMiddleware(s)
      [] OTHER -> paymasterMiddleware(s)

----------------------------------------------------------------------------
(* utils.js and types.js *)

RECURSIVE HexDigits(_)
HexDigits(n) == IF n < 16 THEN <<n>> ELSE Append(HexDigits(n \div 16), n % 16)

toHex(n) == [neg |-> n < 0, digits |-> HexDigits(IF n < 0 THEN -n ELSE n)]

(* deepHexlify(resolveProperties(struct)): numbers become hex, undefined and
   byte strings are kept *)
deepHexlify(s) ==
    [f \in DOMAIN s |->
        IF f \in NumericFields /\ IsSet(s[f]) THEN Some(toHex(Val(s[f]))) ELSE s[f]]

isValidRequest(r) == \A f \in DOMAIN r : IsSet(r[f])

(* asyncPipe(f1, ..., fn): the stage run after stage k has resolved, 0 when
   the pipe itself resolves *)
asyncPipeNext(k, n) == IF k < n THEN k + 1 ELSE 0

----------------------------------------------------------------------------
(* The provider after construction *)

DefaultMiddleware ==
    [dummyPaymasterDataMiddleware |-> "default", gasEstimator |-> "default",
     feeDataGetter |-> "default", paymasterMiddleware |-> "default"]

NoCall == [kind |-> "none", to |-> Unset, data |-> Unset, value |-> Unset,
           args |-> Unset]
Pending == [status |-> "pending", value |-> "", error |-> ""]
Returned(v) == [status |-> "returned", value |-> v, error |-> ""]
Threw(e) == [status |-> "threw", value |-> "", error |-> e]

(* sendUserOperation calls in flight together *)
Subs == 1..MaxSubmissions

NoSub == [pc |-> "idle", ref |-> 0, stage |-> 0, prio |-> Unset, feeData |-> Unset,
          request |-> Unset, hash |-> Unset, outcome |-> Pending]

(* OnboardingStepIdentifier: the keys of onboardingStepHandlers *)
OnboardingStepIdentifier ==
    {"INITIAL_STEP", "GET_ENTRYPOINT", "CREATE_SCWALLET", "FILL_SCWALLET",
     "MINT_NFT", "CHECK_OP_COMPLETE", "STORE_SCWALLET", "DONE"}

(* the fields of OnboardingContext the handlers read or add; client and
   chain are set by the hook and never absent *)
ContextKeys ==
    {"ownerAddress", "useGasManager", "owner", "entrypointAddress",
     "smartAccountAddress", "smartAccountSigner", "mintDeployOpHash"}

(* initialStep(ownerAddress, client, chain, useGasManager): the step
   INITIAL_STEP with the hook's arguments as its context *)
initialStep(ownerAddress, useGasManager) ==
    [identifier |-> "INITIAL_STEP",
     context |-> [k \in ContextKeys |->
                    CASE k = "ownerAddress" -> ownerAddress
                      [] k = "useGasManager" -> Some(useGasManager)
                      [] OTHER -> Unset]]

NoneBegun == [id \in OnboardingStepIdentifier |-> 0]

(* the hook after its first render: useState(initialStep(...)), no go yet *)
Mounted(ownerAddress, useGasManager, runs) ==
    /\ currentStep = initialStep(ownerAddress, useGasManager)
    /\ inMemStep = Unset
    /\ at = "idle"
    /\ resolved = Unset
    /\ txnRetryCount = 0
    /\ reciept = Unset
    /\ goOutcome = Pending
    /\ localStorage = Unset
    /\ runsLeft = runs
    /\ visited = <<>>
    /\ began = NoneBegun
    /\ threw = NoneBegun
    /\ attempts = 0
    /\ falses = 0
    /\ waits = 0

Init ==
    /\ Mounted(Unset, FALSE, 0)
    /\ account \in {"none", Account}
    /\ opts \in [txMaxRetries : TxMaxRetriesChoices,
                  txRetryIntervalMs : {DefaultTxRetryIntervalMs},
                  minPriorityFeePerBid : MinBids,
                  entryPointAddress : {"0xEP"},
                  chain : {"chain"}]
    /\ mw = DefaultMiddleware
    /\ pc = "idle"
    /\ call = NoCall
    /\ pipe = <<>>
    /\ stage = 0
    /\ struct = EmptyStruct
    /\ request = Unset
    /\ prio = Unset
    /\ feeData = Unset
    /\ hash = Unset
    /\ i = 0
    /\ receipt = Unset
    /\ queried = Unset
    /\ transaction = Unset
    /\ answers = NoAnswers
    /\ outcome = Pending
    /\ calls = NoCalls
    /\ log = <<>>
    /\ budget = MaxOverrides
    /\ polled = {}
    /\ forwarded = Unset
    /\ subs = [s \in Subs |-> NoSub]
    /\ heap = [r \in Subs |-> Unset]
    /\ since = {}

Idle == pc \in {"idle", "done"}

sent == <<polled, forwarded>>
drafts == <<subs, heap>>
wizard == <<currentStep, inMemStep, at, resolved, txnRetryCount, reciept, goOutcome,
            localStorage, runsLeft, visited, began, threw, attempts, falses, waits>>
aside == <<drafts, wizard>>

provider == <<account, opts, mw>>
locals == <<pipe, stage, struct, request, prio, feeData, hash, i, receipt, queried,
            transaction, answers>>

(* the state a fresh entry point call starts from *)
Fresh ==
    /\ pipe' = <<>>
    /\ stage' = 0
    /\ struct' = EmptyStruct
    /\ request' = Unset
    /\ prio' = Unset
    /\ feeData' = Unset
    /\ hash' = Unset
    /\ i' = 0
    /\ receipt' = Unset
    /\ queried' = Unset
    /\ transaction' = Unset
    /\ answers' = NoAnswers
    /\ log' = <<>>
    /\ polled' = {}
    /\ since' = {}

(* a rejected promise reaches the caller of the entry point *)
Throw(e) ==
    /\ pc' = "done"
    /\ outcome' = Threw(e)

----------------------------------------------------------------------------
(* connect and the withX overrides *)

connect ==
    /\ account = "none"
    /\ account' = Account
    /\ UNCHANGED <<opts, mw, pc, call, locals, outcome, calls, log, budget, sent,
                   since, aside>>

(* defineReadOnly(this, key, value) for the stages named *)
Override(m, names) ==
    /\ budget > 0
    /\ mw' = m
    /\ budget' = budget - 1
    /\ since' = IF pc = "getInitCode" THEN since \cup names ELSE since
    /\ UNCHANGED <<account, opts, pc, call, locals, outcome, calls, log, sent,
                   aside>>

(* a key left out taken as a request for noOpMiddleware *)
orNoOp(override, current) == IF override = "undefined" THEN "noOp" ELSE override

(* overrides.key ?? this.key *)
orCurrent(override, current) == IF override = "undefined" THEN current ELSE override

withPaymasterMiddlewareCall(dummy, paymaster) ==
    Override([mw EXCEPT
                !.dummyPaymasterDataMiddleware = orCurrent(dummy, @),
                !.paymasterMiddleware = orCurrent(paymaster, @)],
             {"dummyPaymasterDataMiddleware", "paymasterMiddleware"})

withPaymasterMiddleware ==
    \E dummy \in Overrides \cup {"undefined"},
       paymaster \in Overrides \cup {"undefined"} :
        withPaymasterMiddlewareCall(dummy, paymaster)

withGasEstimatorCall(f) == Override([mw EXCEPT !.gasEstimator = f], {"gasEstimator"})

withGasEstimator == \E f \in Overrides : withGasEstimatorCall(f)

withFeeDataGetterCall(f) == Override([mw EXCEPT !.feeDataGetter = f], {"feeDataGetter"})

withFeeDataGetter == \E f \in Overrides : withFeeDataGetterCall(f)

----------------------------------------------------------------------------
(* sendUserOperation *)

(* the fee stage composed ahead of the gas estimator *)
PipelineFeeFirst(m) ==
    << <<"dummyPaymasterDataMiddleware", m.dummyPaymasterDataMiddleware>>,
       <<"feeDataGetter", m.feeDataGetter>>,
       <<"gasEstimator", m.gasEstimator>>,
       <<"paymasterMiddleware", m.paymasterMiddleware>> >>

(* the class's own stages composed whatever the properties hold *)
PipelineOfDefaults(m) ==
    << <<"dummyPaymasterDataMiddleware", "default">>,
       <<"gasEstimator", "default">>,
       <<"feeDataGetter", "default">>,
       <<"paymasterMiddleware", "default">> >>

(* the argument list of asyncPipe *)
Pipeline(m) ==
    << <<"dummyPaymasterDataMiddleware", m.dummyPaymasterDataMiddleware>>,
       <<"gasEstimator", m.gasEstimator>>,
       <<"feeDataGetter", m.feeDataGetter>>,
       <<"paymasterMiddleware", m.paymasterMiddleware>> >>

(* getInitCode called without the test of this.account *)
AccountGuardMissing ==
    /\ pc' = "getInitCode"
    /\ calls' = Invoke(NoCalls, {"getInitCode"})
    /\ outcome' = Pending

(* if (!this.account) throw; else await this.account.getInitCode() *)
AccountGuard ==
    IF account = "none"
    THEN /\ Throw("account not connected!")
         /\ calls' = NoCalls
    ELSE /\ pc' = "getInitCode"
         /\ calls' = Invoke(NoCalls, {"getInitCode"})
         /\ outcome' = Pending

(* an entry point is called with args; to, data and value are the arguments
   it has for sendUserOperation *)
StartCall(kind, to, data, value, args) ==
    /\ Idle
    /\ call' = [kind |-> kind, to |-> to, data |-> data, value |-> value,
                args |-> args]
    /\ Fresh
    /\ forwarded' = Unset
    /\ UNCHANGED <<provider, aside, budget>>

sendUserOperation ==
    \E target \in Targets, value \in {Unset, Some(1)} :
        /\ StartCall("sendUserOperation", Some(target), Some("0xD"), value, Unset)
        /\ AccountGuard

(* getInitCode resolves: the struct is built and the pipe is started *)
getInitCodeReturn ==
    /\ pc = "getInitCode"
    /\ \/ /\ struct' = InitialStruct(InitCode, Val(call.to),
                                        ValueOrZero(call.value), Val(call.data))
          /\ pipe' = Pipeline(mw)
          /\ stage' = asyncPipeNext(0, Len(Pipeline(mw)))
          /\ calls' = Invoke(calls, {"getAddress", "getNonce", "encodeExecute",
                                     "getDummySignature"})
          /\ pc' = "stageBegin"
          /\ UNCHANGED outcome
       \/ /\ Throw("getInitCode failed")
          /\ UNCHANGED <<struct, pipe, stage, calls>>
    /\ since' = {}
    /\ UNCHANGED <<provider, aside, call, request, prio, feeData, hash, i, receipt,
                   queried, transaction, answers, log, budget, sent>>

(* the stage looked up on the provider when its turn comes *)
stageBeginLateBound ==
    /\ pc = "stageBegin"
    /\ LET name == pipe[stage][1]
           impl == mw[name]
       IN  /\ log' = Append(log, <<name, "begin">>)
           /\ IF impl = "default" /\ name = "gasEstimator"
              THEN /\ calls' = Invoke(calls, {"estimateUserOperationGas"})
                   /\ pc' = "estimateUserOperationGas"
                   /\ UNCHANGED struct
              ELSE IF impl = "default" /\ name = "feeDataGetter"
              THEN /\ calls' = Invoke(calls, {"getMaxPriorityFeePerGas"})
                   /\ pc' = "getMaxPriorityFeePerGas"
                   /\ UNCHANGED struct
              ELSE /\ struct' = runSync(name, impl, struct)
                   /\ pc' = "stageEnd"
                   /\ UNCHANGED calls
    /\ UNCHANGED <<provider, aside, call, pipe, stage, request, prio, feeData, hash, i,
                   receipt, queried, transaction, answers, outcome, budget, sent, since>>

(* the pipe calls its next stage *)
stageBegin ==
    /\ pc = "stageBegin"
    /\ LET name == pipe[stage][1]
           impl == pipe[stage][2]
       IN  /\ log' = Append(log, <<name, "begin">>)
           /\ IF impl = "default" /\ name = "gasEstimator"
              THEN /\ calls' = Invoke(calls, {"estimateUserOperationGas"})
                   /\ pc' = "estimateUserOperationGas"
                   /\ UNCHANGED struct
              ELSE IF impl = "default" /\ name = "feeDataGetter"
              THEN /\ calls' = Invoke(calls, {"getMaxPriorityFeePerGas"})
                   /\ pc' = "getMaxPriorityFeePerGas"
                   /\ UNCHANGED struct
              ELSE /\ struct' = runSync(name, impl, struct)
                   /\ pc' = "stageEnd"
                   /\ UNCHANGED calls
    /\ UNCHANGED <<provider, aside, call, pipe, stage, request, prio, feeData, hash, i,
                   receipt, queried, transaction, answers, outcome, budget, sent, since>>

(* a failed estimate answered by asking the bundler again *)
estimateReturnRetries ==
    /\ pc = "estimateUserOperationGas"
    /\ \/ /\ struct' = gasEstimatorWrite(struct, GasEstimate)
          /\ pc' = "stageEnd"
          /\ UNCHANGED calls
       \/ /\ calls' = Invoke(calls, {"estimateUserOperationGas"})
          /\ UNCHANGED <<struct, pc>>
    /\ UNCHANGED <<provider, aside, call, pipe, stage, request, prio, feeData, hash, i,
                   receipt, queried, transaction, answers, outcome, log, budget, sent, since>>

(* gasEstimator: the bundler's estimates arrive *)
estimateReturn ==
    /\ pc = "estimateUserOperationGas"
    /\ \/ /\ struct' = gasEstimatorWrite(struct, GasEstimate)
          /\ pc' = "stageEnd"
          /\ UNCHANGED outcome
       \/ /\ Throw("estimateUserOperationGas failed")
          /\ UNCHANGED struct
    /\ UNCHANGED <<provider, aside, call, pipe, stage, request, prio, feeData, hash, i,
                   receipt, queried, transaction, answers, calls, log, budget, sent, since>>

(* feeDataGetter: the suggested priority fee arrives, getFeeData is called *)
maxPriorityFeeReturn ==
    /\ pc = "getMaxPriorityFeePerGas"
    /\ \/ /\ \E s \in SuggestedFees : prio' = Some(s)
          /\ calls' = Invoke(calls, {"getFeeData"})
          /\ pc' = "getFeeData"
          /\ UNCHANGED outcome
       \/ /\ Throw("getMaxPriorityFeePerGas failed")
          /\ UNCHANGED <<prio, calls>>
    /\ UNCHANGED <<provider, aside, call, pipe, stage, struct, request, feeData, hash, i,
                   receipt, queried, transaction, answers, log, budget, sent, since>>

(* incomplete fee data answered by returning the struct as it is *)
feeDataReturnSkipsMissing ==
    /\ pc = "getFeeData"
    /\ \E fd \in FeeDatas :
            /\ feeData' = Some(fd)
            /\ struct' = IF feeDataMissing(fd) THEN struct
                         ELSE feeDataGetterWrite(struct, Val(prio), fd,
                                                 opts.minPriorityFeePerBid)
            /\ pc' = "stageEnd"
    /\ UNCHANGED <<provider, aside, call, pipe, stage, request, prio, hash, i, receipt,
                   queried, transaction, answers, outcome, calls, log, budget, sent, since>>

(* feeDataGetter: the fee data arrive; the bids are computed and written *)
feeDataReturn ==
    /\ pc = "getFeeData"
    /\ \/ \E fd \in FeeDatas :
            /\ feeData' = Some(fd)
            /\ IF feeDataMissing(fd)
               THEN /\ Throw("feeData is missing maxFeePerGas or maxPriorityFeePerGas")
                    /\ UNCHANGED struct
               ELSE /\ struct' = feeDataGetterWrite(struct, Val(prio), fd,
                                                    opts.minPriorityFeePerBid)
                    /\ pc' = "stageEnd"
                    /\ UNCHANGED outcome
       \/ /\ Throw("getFeeData failed")
          /\ UNCHANGED <<struct, feeData>>
    /\ UNCHANGED <<provider, aside, call, pipe, stage, request, prio, hash, i, receipt,
                   queried, transaction, answers, calls, log, budget, sent, since>>

(* the stage's promise resolves: the pipe goes on, or resolves itself *)
stageEnd ==
    /\ pc = "stageEnd"
    /\ log' = Append(log, <<pipe[stage][1], "end">>)
    /\ stage' = asyncPipeNext(stage, Len(pipe))
    /\ pc' = IF stage' = 0 THEN "validate" ELSE "stageBegin"
    /\ prio' = Unset
    /\ feeData' = Unset
    /\ UNCHANGED <<provider, aside, call, pipe, struct, request, hash, i, receipt,
                   queried, transaction, answers, outcome, calls, budget, sent, since>>

(* the request signed without the isValidRequest test *)
validateWithoutGate ==
    /\ pc = "validate"
    /\ request' = Some(deepHexlify(struct))
    /\ pc' = "signMessage"
    /\ calls' = Invoke(calls, {"signMessage"})
    /\ log' = log \o << <<"validate", "begin">>, <<"validate", "end">>,
                        <<"signMessage", "begin">> >>
    /\ UNCHANGED <<provider, aside, call, pipe, stage, struct, prio, feeData, hash, i,
                   receipt, queried, transaction, answers, outcome, budget, sent, since>>

(* deepHexlify, isValidRequest, then signMessage is called *)
validate ==
    /\ pc = "validate"
    /\ request' = Some(deepHexlify(struct))
    /\ IF isValidRequest(deepHexlify(struct))
       THEN /\ pc' = "signMessage"
            /\ calls' = Invoke(calls, {"signMessage"})
            /\ log' = log \o << <<"validate", "begin">>, <<"validate", "end">>,
                                <<"signMessage", "begin">> >>
            /\ UNCHANGED outcome
       ELSE /\ Throw("Request is missing parameters")
            /\ log' = Append(log, <<"validate", "begin">>)
            /\ UNCHANGED calls
    /\ UNCHANGED <<provider, aside, call, pipe, stage, struct, prio, feeData, hash, i,
                   receipt, queried, transaction, answers, budget, sent, since>>

(* the request handed to the bundler without waiting for the signature *)
signMessageNotAwaited ==
    /\ pc = "signMessage"
    /\ calls' = Invoke(calls, {"sendUserOperation"})
    /\ \/ /\ request' = Some([Val(request) EXCEPT !.signature = Some("0xsig")])
          /\ log' = log \o << <<"signMessage", "end">>,
                              <<"sendUserOperation", "begin">> >>
          /\ pc' = "sendUserOperation"
          /\ UNCHANGED outcome
       \/ /\ Throw("signMessage failed")
          /\ UNCHANGED <<request, log>>
    /\ UNCHANGED <<provider, aside, call, pipe, stage, struct, prio, feeData, hash, i,
                   receipt, queried, transaction, answers, budget, sent, since>>

(* the signature arrives and the request is sent to the bundler *)
signMessageReturn ==
    /\ pc = "signMessage"
    /\ \/ /\ request' = Some([Val(request) EXCEPT !.signature = Some("0xsig")])
          /\ calls' = Invoke(calls, {"sendUserOperation"})
          /\ log' = log \o << <<"signMessage", "end">>,
                              <<"sendUserOperation", "begin">> >>
          /\ pc' = "sendUserOperation"
          /\ UNCHANGED outcome
       \/ /\ Throw("signMessage failed")
          /\ UNCHANGED <<request, calls, log>>
    /\ UNCHANGED <<provider, aside, call, pipe, stage, struct, prio, feeData, hash, i,
                   receipt, queried, transaction, answers, budget, sent, since>>

(* the bundler answers the submission; sendTransaction keeps only the hash
   of the result and starts waitForUserOperationTransaction *)
sendUserOperationReturn ==
    /\ pc = "sendUserOperation"
    /\ \/ /\ hash' = Some(UoHash)
          /\ log' = Append(log, <<"sendUserOperation", "end">>)
          /\ IF call.kind = "sendTransaction"
             THEN /\ pc' = "poll"
                  /\ pipe' = <<>>
                  /\ stage' = 0
                  /\ struct' = EmptyStruct
                  /\ request' = Unset
                  /\ UNCHANGED outcome
             ELSE /\ pc' = "done"
                  /\ outcome' = Returned(UoHash)
                  /\ UNCHANGED <<pipe, stage, struct, request>>
       \/ /\ Throw("bundler sendUserOperation failed")
          /\ UNCHANGED <<hash, log, pipe, stage, struct, request>>
    /\ UNCHANGED <<provider, aside, call, prio, feeData, i, receipt, queried, transaction,
                   answers, calls,
                   budget, sent, since>>

----------------------------------------------------------------------------
(* sendTransaction and waitForUserOperationTransaction *)

RECURSIVE fromDigits(_)
fromDigits(ds) ==
    IF ds = <<>> THEN 0
    ELSE 16 * fromDigits(SubSeq(ds, 1, Len(ds) - 1)) + ds[Len(ds)]

fromHex(h) == IF h.neg THEN -fromDigits(h.digits) ELSE fromDigits(h.digits)

TxRequests ==
    { [to |-> Unset, data |-> Some("0xD"), value |-> Unset],
      [to |-> Some("0xT"), data |-> Unset, value |-> Unset],
      [to |-> Some("0xT"), data |-> Some("0xD"), value |-> Some(toHex(1))] }

(* the request passed on without the test of its to *)
sendTransactionUnchecked ==
    \E tx \in TxRequests :
        /\ StartCall("sendTransaction", tx.to,
                     IF IsSet(tx.data) THEN tx.data ELSE Some("0x"),
                     IF IsSet(tx.value) THEN Some(fromHex(Val(tx.value)))
                     ELSE Some(0),
                     Some(tx))
        /\ AccountGuard

(* sendTransaction(tx) up to its first await *)
sendTransactionOf(tx) ==
    IF ~IsSet(tx.to)
    THEN /\ StartCall("sendTransaction", Unset, Unset, Unset, Some(tx))
         /\ Throw("transaction is missing to address")
         /\ calls' = NoCalls
    ELSE /\ StartCall("sendTransaction", tx.to,
                      IF IsSet(tx.data) THEN tx.data ELSE Some("0x"),
                      IF IsSet(tx.value) THEN Some(fromHex(Val(tx.value)))
                      ELSE Some(0),
                      Some(tx))
         /\ AccountGuard

sendTransaction == \E tx \in TxRequests : sendTransactionOf(tx)

(* what the bundler can answer to a receipt lookup *)
Null == [kind |-> "null", transactionHash |-> ""]
LookupError == [kind |-> "error", transactionHash |-> ""]
Receipts == {[kind |-> "receipt", transactionHash |-> h] : h \in TxHashes}
LookupResults == Receipts \cup {Null, LookupError}

(* .catch(() => null) *)
catchNull(result) == IF result.kind = "error" THEN Null ELSE result

(* a loop that makes one attempt too many *)
loopTestInclusive(n, max) == n <= max

(* for (let i = 0; i < this.txMaxRetries; i++) *)
loopTest(n, max) == n < max

(* a lookup of the transaction by the user operation hash *)
transactionQueryByUoHash(r, uoHash) == uoHash

(* getTransaction({ hash: receipt.receipt.transactionHash }) *)
transactionQuery(r, uoHash) == r.transactionHash

(* a lookup of the receipt under a hash of the poller's own *)
receiptQueryOther(h) == "0xother"

(* getUserOperationReceipt(hash) *)
receiptQuery(h) == Val(h)

(* the loop test; the wait; the receipt lookup is called *)
pollAttempt ==
    /\ pc = "poll"
    /\ IF loopTest(i, opts.txMaxRetries)
       THEN /\ calls' = Invoke(calls, {"getUserOperationReceipt"})
            /\ polled' = polled \cup {receiptQuery(hash)}
            /\ pc' = "getUserOperationReceipt"
            /\ UNCHANGED outcome
       ELSE /\ Throw("Failed to find transaction for User Operation")
            /\ UNCHANGED <<calls, polled>>
    /\ UNCHANGED <<provider, aside, call, locals, log, budget, forwarded, since>>

(* the lookup answers: a receipt, null, or an error caught as null *)
receiptReturn ==
    /\ pc = "getUserOperationReceipt"
    /\ \E result \in LookupResults :
        /\ answers' = [answers EXCEPT ![result.kind] = @ + 1]
        /\ LET r == catchNull(result)
           IN  IF r.kind = "error"
               THEN /\ Throw("getUserOperationReceipt failed")
                    /\ UNCHANGED <<receipt, queried, calls, i>>
               ELSE IF r.kind = "null"
               THEN /\ i' = i + 1
                    /\ pc' = "poll"
                    /\ UNCHANGED <<receipt, queried, calls, outcome>>
               ELSE /\ receipt' = Some(r)
                    /\ queried' = Some(transactionQuery(r, Val(hash)))
                    /\ calls' = Invoke(calls, {"getTransaction"})
                    /\ pc' = "getTransaction"
                    /\ UNCHANGED <<i, outcome>>
    /\ UNCHANGED <<provider, aside, call, pipe, stage, struct, request, prio, feeData,
                   hash, transaction, log, budget, sent, since>>

(* getTransaction answers: x.hash is returned *)
getTransactionReturn ==
    /\ pc = "getTransaction"
    /\ \/ \E x \in TxHashes :
            /\ transaction' = Some([hash |-> x])
            /\ pc' = "done"
            /\ outcome' = Returned(x)
       \/ /\ Throw("getTransaction failed")
          /\ UNCHANGED transaction
    /\ UNCHANGED <<provider, aside, call, pipe, stage, struct, request, prio, feeData,
                   hash, i, receipt, queried, answers, calls, log, budget, sent, since>>

----------------------------------------------------------------------------
(* request *)

SignMethods == {"eth_sign", "personal_sign"}
OtherMethods == {"eth_chainId", "eth_signTypedData_v4"}

(* the { method, params } objects request is called with *)
RpcRequests ==
    [method : {"eth_sendTransaction"}, params : {<<tx>> : tx \in TxRequests}]
    \cup [method : SignMethods,
          params : {<<a, b>> : a \in {Address, "0xB"}, b \in {Address, "0xB"}}]
    \cup [method : OtherMethods, params : {<<>>, <<Address>>}]

(* const [data, address] = params *)
signAddress(params) == params[2]

(* case "eth_sign", case "personal_sign": up to the await of getAddress *)
requestSign(args) ==
    /\ StartCall("request", Unset, Unset, Unset, Some(args))
    /\ IF account = "none"
       THEN /\ Throw("account not connected!")
            /\ calls' = NoCalls
       ELSE /\ calls' = Invoke(NoCalls, {"getAddress"})
            /\ pc' = "request:getAddress"
            /\ outcome' = Pending

(* default: return this.rpcClient.request(args) *)
requestForward(args) ==
    /\ Idle
    /\ call' = [kind |-> "request", to |-> Unset, data |-> Unset, value |-> Unset,
                args |-> Some(args)]
    /\ Fresh
    /\ forwarded' = Some(args)
    /\ calls' = Invoke(NoCalls, {"request"})
    /\ pc' = "rpcClient.request"
    /\ outcome' = Pending
    /\ UNCHANGED <<provider, aside, budget>>

(* the switch on method *)
requestMethod ==
    \E args \in RpcRequests :
        CASE args.method = "eth_sendTransaction" -> sendTransactionOf(args.params[1])
          [] args.method \in SignMethods -> requestSign(args)
          [] OTHER -> requestForward(args)

(* the account's address arrives and is compared with the address asked for *)
getAddressReturn ==
    /\ pc = "request:getAddress"
    /\ \/ IF signAddress(Val(call.args).params) # Address
          THEN /\ Throw("cannot sign for address that is not the current account")
               /\ UNCHANGED calls
          ELSE /\ calls' = Invoke(calls, {"signMessage"})
               /\ pc' = "request:signMessage"
               /\ UNCHANGED outcome
       \/ /\ Throw("getAddress failed")
          /\ UNCHANGED calls
    /\ UNCHANGED <<provider, aside, call, locals, log, budget, sent, since>>

(* return await this.account.signMessage(data) *)
requestSignMessageReturn ==
    /\ pc = "request:signMessage"
    /\ \/ /\ pc' = "done"
          /\ outcome' = Returned("0xsig")
       \/ Throw("signMessage failed")
    /\ UNCHANGED <<provider, aside, call, locals, calls, log, budget, sent, since>>

(* the bundler client answers the forwarded request *)
requestForwardReturn ==
    /\ pc = "rpcClient.request"
    /\ \/ /\ pc' = "done"
          /\ outcome' = Returned("0xresult")
       \/ Throw("rpcClient.request failed")
    /\ UNCHANGED <<provider, aside, call, locals, calls, log, budget, sent, since>>

----------------------------------------------------------------------------

Next ==
    \/ connect
    \/ withPaymasterMiddleware
    \/ withGasEstimator
    \/ withFeeDataGetter
    \/ sendUserOperation
    \/ sendTransaction
    \/ getInitCodeReturn
    \/ stageBegin
    \/ estimateReturn
    \/ maxPriorityFeeReturn
    \/ feeDataReturn
    \/ stageEnd
    \/ validate
    \/ signMessageReturn
    \/ sendUserOperationReturn
    \/ pollAttempt
    \/ receiptReturn
    \/ getTransactionReturn

Spec == Init /\ [][Next]_vars

(* the provider used through request alone, as an EIP-1193 provider: every
   submission enters through eth_sendTransaction and the stages are the ones
   the constructor installed *)
NextRequest ==
    \/ connect
    \/ requestMethod
    \/ getAddressReturn
    \/ requestSignMessageReturn
    \/ requestForwardReturn
    \/ getInitCodeReturn
    \/ stageBegin
    \/ estimateReturn
    \/ maxPriorityFeeReturn
    \/ feeDataReturn
    \/ stageEnd
    \/ validate
    \/ signMessageReturn
    \/ sendUserOperationReturn
    \/ pollAttempt
    \/ receiptReturn
    \/ getTransactionReturn

SpecRequest == Init /\ [][NextRequest]_vars

----------------------------------------------------------------------------
(* Several sendUserOperation calls in flight on one provider that has its
   default stages: each call has its own locals; the drafts are objects on
   the heap, reached through the reference the call holds *)

sequential == <<account, opts, mw, pc, call, locals, outcome, calls, log, budget,
                sent, since, wizard>>

(* what the account and the bundler answer to the calls of submission s *)
TargetOf(s) == <<"0xT", s>>
InitCodeOf(s) == <<"0xinit", s>>
EstimateFor(s) == [callGasLimit |-> 100 * s, verificationGasLimit |-> 200 * s,
                   preVerificationGas |-> 300 * s]
SuggestedFor(s) == 3 * s
FeeDataFor(s) == [maxFeePerGas |-> Some(11 * s), maxPriorityFeePerGas |-> Some(s)]
SignatureFor(s) == <<"0xsig", s>>
UoHashFor(s) == <<"0xuo", s>>

(* one draft object kept by the provider and used by every call *)
sharedObject(h) == 1

(* the object literal handed to the pipe: an object no call has yet *)
newObject(h) ==
    CHOOSE r \in DOMAIN h :
        h[r] = Unset /\ \A q \in DOMAIN h : h[q] = Unset => r <= q

At(s, p) == subs[s].pc = p
Step(s, sub) == subs' = [subs EXCEPT ![s] = sub]
Write(s, draft) == heap' = [heap EXCEPT ![subs[s].ref] = draft]
Draft(s) == heap[subs[s].ref]
Fail(s, e) == Step(s, [subs[s] EXCEPT !.pc = "done", !.outcome = Threw(e)])

sendUserOperationOf(s) ==
    /\ At(s, "idle")
    /\ IF account = "none"
       THEN Fail(s, "account not connected!")
       ELSE Step(s, [subs[s] EXCEPT !.pc = "getInitCode"])
    /\ UNCHANGED <<heap, sequential>>

getInitCodeReturnOf(s) ==
    /\ At(s, "getInitCode")
    /\ \/ LET r == newObject(heap)
          IN  /\ heap' = [heap EXCEPT ![r] =
                            InitialStruct(InitCodeOf(s), TargetOf(s), 0, "0xD")]
              /\ Step(s, [subs[s] EXCEPT !.ref = r,
                              !.stage = asyncPipeNext(0, Len(Pipeline(mw))),
                              !.pc = "stageBegin"])
       \/ /\ Fail(s, "getInitCode failed")
          /\ UNCHANGED heap
    /\ UNCHANGED sequential

stageBeginOf(s) ==
    /\ At(s, "stageBegin")
    /\ LET name == Pipeline(mw)[subs[s].stage][1]
       IN  IF name = "gasEstimator"
           THEN /\ Step(s, [subs[s] EXCEPT !.pc = "estimateUserOperationGas"])
                /\ UNCHANGED heap
           ELSE IF name = "feeDataGetter"
           THEN /\ Step(s, [subs[s] EXCEPT !.pc = "getMaxPriorityFeePerGas"])
                /\ UNCHANGED heap
           ELSE /\ Write(s, runSync(name, "default", Draft(s)))
                /\ Step(s, [subs[s] EXCEPT !.pc = "stageEnd"])
    /\ UNCHANGED sequential

estimateReturnOf(s) ==
    /\ At(s, "estimateUserOperationGas")
    /\ \/ /\ Write(s, gasEstimatorWrite(Draft(s), EstimateFor(s)))
          /\ Step(s, [subs[s] EXCEPT !.pc = "stageEnd"])
       \/ /\ Fail(s, "estimateUserOperationGas failed")
          /\ UNCHANGED heap
    /\ UNCHANGED sequential

maxPriorityFeeReturnOf(s) ==
    /\ At(s, "getMaxPriorityFeePerGas")
    /\ \/ Step(s, [subs[s] EXCEPT !.prio = Some(SuggestedFor(s)), !.pc = "getFeeData"])
       \/ Fail(s, "getMaxPriorityFeePerGas failed")
    /\ UNCHANGED <<heap, sequential>>

feeDataReturnOf(s) ==
    /\ At(s, "getFeeData")
    /\ \/ /\ Write(s, feeDataGetterWrite(Draft(s), Val(subs[s].prio), FeeDataFor(s),
                                          opts.minPriorityFeePerBid))
          /\ Step(s, [subs[s] EXCEPT !.feeData = Some(FeeDataFor(s)),
                                       !.pc = "stageEnd"])
       \/ /\ Fail(s, "getFeeData failed")
          /\ UNCHANGED heap
    /\ UNCHANGED sequential

stageEndOf(s) ==
    /\ At(s, "stageEnd")
    /\ LET next == asyncPipeNext(subs[s].stage, Len(Pipeline(mw)))
       IN  Step(s, [subs[s] EXCEPT !.stage = next, !.prio = Unset, !.feeData = Unset,
                       !.pc = IF next = 0 THEN "validate" ELSE "stageBegin"])
    /\ UNCHANGED <<heap, sequential>>

validateOf(s) ==
    /\ At(s, "validate")
    /\ IF isValidRequest(deepHexlify(Draft(s)))
       THEN Step(s, [subs[s] EXCEPT !.request = Some(deepHexlify(Draft(s))),
                                     !.pc = "signMessage"])
       ELSE Step(s, [subs[s] EXCEPT !.request = Some(deepHexlify(Draft(s))),
                        !.pc = "done",
                        !.outcome = Threw("Request is missing parameters")])
    /\ UNCHANGED <<heap, sequential>>

signMessageReturnOf(s) ==
    /\ At(s, "signMessage")
    /\ \/ Step(s, [subs[s] EXCEPT
                    !.request = Some([Val(@) EXCEPT !.signature = Some(SignatureFor(s))]),
                    !.pc = "sendUserOperation"])
       \/ Fail(s, "signMessage failed")
    /\ UNCHANGED <<heap, sequential>>

sendUserOperationReturnOf(s) ==
    /\ At(s, "sendUserOperation")
    /\ \/ Step(s, [subs[s] EXCEPT !.hash = Some(UoHashFor(s)), !.pc = "done",
                                   !.outcome = Returned(UoHashFor(s))])
       \/ Fail(s, "bundler sendUserOperation failed")
    /\ UNCHANGED <<heap, sequential>>

InitConcurrent ==
    /\ Init
    /\ opts.txMaxRetries = DefaultTxMaxRetries

NextConcurrent ==
    \E s \in Subs :
        \/ sendUserOperationOf(s)
        \/ getInitCodeReturnOf(s)
        \/ stageBeginOf(s)
        \/ estimateReturnOf(s)
        \/ maxPriorityFeeReturnOf(s)
        \/ feeDataReturnOf(s)
        \/ stageEndOf(s)
        \/ validateOf(s)
        \/ signMessageReturnOf(s)
        \/ sendUserOperationReturnOf(s)

SpecConcurrent == InitConcurrent /\ [][NextConcurrent]_vars

----------------------------------------------------------------------------
(* The onboarding example (examples/alchemy-daapp, OnboardingController.ts):
   useOnboardingOrchestrator's go runs the step handlers from the current
   step on; the provider is a collaborator here, its sendUserOperation
   answering with a hash or a rejection *)

core == <<provider, pc, call, locals, outcome, calls, log, budget, sent, since,
          drafts>>
pollState == <<txnRetryCount, reciept, attempts, falses, waits>>

Identifier == Val(inMemStep).identifier
Context == Val(inMemStep).context

(* { ...inMemStep.context, ...context } *)
assembledContext(context, added) ==
    [k \in ContextKeys |-> IF k \in DOMAIN added THEN added[k] ELSE context[k]]

NothingAdded == [k \in {} |-> Unset]

(* a handler rejects: .catch logs and rethrows, the while loop is left, go
   rejects with e *)
Reject(e) ==
    /\ goOutcome' = Threw(e)
    /\ threw' = [threw EXCEPT ![Identifier] = @ + 1]
    /\ at' = "idle"
    /\ inMemStep' = Unset
    /\ resolved' = Unset

(* a handler resolves to { nextStep, addedContext } *)
Resolve(nextStep, addedContext) ==
    /\ resolved' = Some([nextStep |-> nextStep, addedContext |-> addedContext])
    /\ at' = "then"
    /\ UNCHANGED <<goOutcome, threw, inMemStep>>

(* a handler awaits the collaborator call p *)
Await(p) ==
    /\ at' = p
    /\ UNCHANGED <<goOutcome, threw, inMemStep, resolved>>

(* the locals of a pollForLambdaForComplete call that has returned, and
   the counts kept of it, are dropped *)
PollForgotten ==
    /\ txnRetryCount' = 0
    /\ reciept' = Unset
    /\ attempts' = 0
    /\ falses' = 0
    /\ waits' = 0

(* the second argument of pollForLambdaForComplete in the two handlers that
   poll *)
txnMaxDurationSeconds ==
    IF Identifier = "FILL_SCWALLET" THEN FillMaxDurationSeconds
    ELSE DefaultTxnMaxDurationSeconds

(* what the lambda of the polling handler needs from the context, the error
   it throws without it, and the step its handler returns *)
lambdaNeeds ==
    IF Identifier = "FILL_SCWALLET" THEN "smartAccountAddress" ELSE "mintDeployOpHash"
lambdaError ==
    IF Identifier = "FILL_SCWALLET"
    THEN "An account address to add funds was not found"
    ELSE "No mint deploy operation Hash was found"
lambdaClientError ==
    IF Identifier = "FILL_SCWALLET" THEN "getBalance failed"
    ELSE "getUserOperationReceipt failed"
pollNextStep ==
    IF Identifier = "FILL_SCWALLET" THEN "MINT_NFT" ELSE "STORE_SCWALLET"

(* reciept = await lambda(): the lambda's own test, then its client call *)
invokeLambda ==
    /\ attempts' = attempts + 1
    /\ IF ~IsSet(Context[lambdaNeeds])
       THEN Reject(lambdaError)
       ELSE Await("lambda")

(* the lambda's rejection taken as a miss, as the confirmation poller of the
   provider takes a failed receipt lookup *)
lambdaRejectsAsMiss ==
    /\ reciept' = Some(FALSE)
    /\ falses' = falses
    /\ Await("setTimeout")

(* the lambda's rejection leaves pollForLambdaForComplete and the handler *)
lambdaRejects ==
    /\ Reject(lambdaClientError)
    /\ UNCHANGED <<reciept, falses>>

(* the loop test one too generous *)
retryTestInclusive(count, max) == count <= max

(* txnRetryCount++ < txnMaxDurationSeconds, on the value before the increment *)
retryTest(count, max) == count < max

(* onboardingStepHandlers[identifier](context, appConfig), up to its first
   await *)
handler(identifier) ==
    CASE identifier = "INITIAL_STEP" ->
            /\ IF ~IsSet(Context.ownerAddress)
               THEN Reject("No connected account or address")
               ELSE Resolve("GET_ENTRYPOINT", [k \in {"owner"} |-> Some("owner")])
            /\ UNCHANGED pollState
      [] identifier = "GET_ENTRYPOINT" ->
            /\ IF ~IsSet(Context.owner)
               THEN Reject("No owner")
               ELSE Await("getSupportedEntryPoints")
            /\ UNCHANGED pollState
      [] identifier = "CREATE_SCWALLET" ->
            /\ IF ~IsSet(Context.entrypointAddress)
               THEN Reject("No entrypoint address was found")
               ELSE IF ~IsSet(Context.owner)
                    THEN Reject("No owner for account was found")
                    ELSE Await("baseSigner.getAddress")
            /\ UNCHANGED pollState
      [] identifier \in {"FILL_SCWALLET", "CHECK_OP_COMPLETE"} ->
            /\ txnRetryCount' = 0
            /\ reciept' = Unset
            /\ falses' = 0
            /\ waits' = 0
            /\ invokeLambda
      [] identifier = "MINT_NFT" ->
            /\ Await("smartAccountSigner.getAddress")
            /\ UNCHANGED pollState
      [] identifier = "STORE_SCWALLET" ->
            /\ Await("owner.getAddress")
            /\ UNCHANGED pollState
      [] OTHER ->
            /\ Resolve("DONE", NothingAdded)
            /\ UNCHANGED pollState

(* go: let inMemStep = currentStep *)
go ==
    /\ at = "idle"
    /\ runsLeft > 0
    /\ runsLeft' = runsLeft - 1
    /\ inMemStep' = Some(currentStep)
    /\ at' = "while"
    /\ visited' = <<>>
    /\ PollForgotten
    /\ UNCHANGED <<core, currentStep, resolved, goOutcome, localStorage, began, threw>>

(* while (inMemStep.identifier !== OnboardingStepIdentifier.DONE) *)
whileTest ==
    /\ at = "while"
    /\ IF Identifier # "DONE"
       THEN /\ at' = "handler"
            /\ UNCHANGED <<goOutcome, inMemStep>>
       ELSE /\ at' = "idle"
            /\ goOutcome' = Returned("undefined")
            /\ inMemStep' = Unset
    /\ UNCHANGED <<core, currentStep, resolved, localStorage, runsLeft, visited, began,
                   threw, pollState>>

(* the handler of the step in hand is called *)
handlerBegin ==
    /\ at = "handler"
    /\ visited' = Append(visited, Identifier)
    /\ began' = [began EXCEPT ![Identifier] = @ + 1]
    /\ handler(Identifier)
    /\ UNCHANGED <<core, currentStep, localStorage, runsLeft>>

(* client.getSupportedEntryPoints() answers *)
getSupportedEntryPointsReturn ==
    /\ at = "getSupportedEntryPoints"
    /\ \/ \E entrypoints \in {<<>>, <<"0xEP">>, <<"0xEP", "0xEP2">>} :
            IF Len(entrypoints) = 0
            THEN Reject("No entrypoints found")
            ELSE Resolve("CREATE_SCWALLET",
                         [k \in {"entrypointAddress"} |-> Some(entrypoints[1])])
       \/ Reject("getSupportedEntryPoints failed")
    /\ UNCHANGED <<core, currentStep, localStorage, runsLeft, visited, began, pollState>>

(* the wallet funded by its user whatever useGasManager says *)
afterCreateAlwaysFill(useGasManager) == "FILL_SCWALLET"

(* the nextStep of the two returns of CREATE_SCWALLET *)
afterCreate(useGasManager) ==
    IF useGasManager THEN "MINT_NFT" ELSE "FILL_SCWALLET"

(* baseSigner.getAddress() answers; with the gas manager the signer gets the
   paymaster middleware and FILL_SCWALLET is passed over *)
baseSignerGetAddressReturn ==
    /\ at = "baseSigner.getAddress"
    /\ \/ LET useGasManager == Val(Context.useGasManager)
              added ==
                [k \in {"smartAccountAddress", "smartAccountSigner"} |->
                    IF k = "smartAccountAddress" THEN Some("0xSCW")
                    ELSE Some([account |-> Account, paymaster |-> useGasManager])]
          IN  Resolve(afterCreate(useGasManager), added)
       \/ Reject("getAddress failed")
    /\ UNCHANGED <<core, currentStep, localStorage, runsLeft, visited, began, pollState>>

(* the lambda's client call answers *)
lambdaReturn ==
    /\ at = "lambda"
    /\ \/ \E r \in BOOLEAN :
            /\ reciept' = Some(r)
            /\ falses' = IF r THEN falses ELSE falses + 1
            /\ IF r
               THEN Resolve(pollNextStep, NothingAdded)
               ELSE Await("setTimeout")
       \/ lambdaRejects
    /\ UNCHANGED <<core, currentStep, localStorage, runsLeft, visited, began,
                   txnRetryCount, attempts, waits>>

(* the one-second wait is over; the loop test, then the next lambda call or
   the timeout error *)
timerFires ==
    /\ at = "setTimeout"
    /\ waits' = waits + 1
    /\ txnRetryCount' = txnRetryCount + 1
    /\ IF retryTest(txnRetryCount, txnMaxDurationSeconds)
       THEN invokeLambda
       ELSE /\ Reject("Timedout waiting for contrat deployment and NFT mint.")
            /\ UNCHANGED attempts
    /\ UNCHANGED <<core, currentStep, localStorage, runsLeft, visited, began, reciept,
                   falses>>

(* context.smartAccountSigner?.getAddress() answers, then the test on the
   signer's account and the address, then sendUserOperation is called *)
signerGetAddressReturn ==
    /\ at = "smartAccountSigner.getAddress"
    /\ IF ~IsSet(Context.smartAccountSigner)
       THEN Reject("No SCW account was found")
       ELSE \/ IF Val(Context.smartAccountSigner).account = "none"
               THEN Reject("No SCW account was found")
               ELSE Await("sendUserOperation")
            \/ Reject("getAddress failed")
    /\ UNCHANGED <<core, currentStep, localStorage, runsLeft, visited, began, pollState>>

(* smartAccountSigner.sendUserOperation(nftContractAddress, mintTo) answers *)
mintReturn ==
    /\ at = "sendUserOperation"
    /\ \/ Resolve("CHECK_OP_COMPLETE", [k \in {"mintDeployOpHash"} |-> Some("0xuo1")])
       \/ Reject("sendUserOperation failed")
    /\ UNCHANGED <<core, currentStep, localStorage, runsLeft, visited, began, pollState>>

(* context.owner?.getAddress() answers with the owner address of the
   context; the wallet address is stored under it *)
ownerGetAddressReturn ==
    /\ at = "owner.getAddress"
    /\ IF ~IsSet(Context.owner) \/ ~IsSet(Context.ownerAddress)
       THEN Reject("No owner for account was found") /\ UNCHANGED localStorage
       ELSE IF ~IsSet(Context.smartAccountAddress)
            THEN Reject("No SCW was found") /\ UNCHANGED localStorage
            ELSE /\ localStorage' = Some([key |-> Val(Context.ownerAddress),
                                          value |-> Val(Context.smartAccountAddress)])
                 /\ Resolve("DONE", NothingAdded)
    /\ UNCHANGED <<core, currentStep, runsLeft, visited, began, pollState>>

(* the resolved step kept in go's local alone, the React state left behind *)
updateStepInMemoryOnly ==
    /\ at = "then"
    /\ inMemStep' =
            Some([identifier |-> Val(resolved).nextStep,
                  context |-> assembledContext(Context, Val(resolved).addedContext)])
    /\ resolved' = Unset
    /\ at' = "while"
    /\ PollForgotten
    /\ UNCHANGED <<core, currentStep, goOutcome, localStorage, runsLeft, visited, began,
                   threw>>

(* .then((step) => _updateStep(step.nextStep, step.addedContext)) *)
updateStep ==
    /\ at = "then"
    /\ LET resolvedStep ==
            [identifier |-> Val(resolved).nextStep,
             context |-> assembledContext(Context, Val(resolved).addedContext)]
       IN  /\ inMemStep' = Some(resolvedStep)
           /\ currentStep' = resolvedStep
    /\ resolved' = Unset
    /\ at' = "while"
    /\ PollForgotten
    /\ UNCHANGED <<core, goOutcome, localStorage, runsLeft, visited, began, threw>>

(* reset, called between two runs (the owner address, the chain or
   useGasManager changed): updateStep(initialStep(...)) *)
reset ==
    /\ at = "idle"
    /\ \E ownerAddress \in {Unset, Some("0xOwner")}, useGasManager \in BOOLEAN :
            currentStep' = initialStep(ownerAddress, useGasManager)
    /\ began' = NoneBegun
    /\ threw' = NoneBegun
    /\ PollForgotten
    /\ UNCHANGED <<core, inMemStep, at, resolved, goOutcome, localStorage, runsLeft,
                   visited>>

InitOnboarding ==
    /\ \E ownerAddress \in {Unset, Some("0xOwner")}, useGasManager \in BOOLEAN :
            Mounted(ownerAddress, useGasManager, MaxRuns)
    /\ account = "none"
    /\ opts = [txMaxRetries |-> DefaultTxMaxRetries,
               txRetryIntervalMs |-> DefaultTxRetryIntervalMs,
               minPriorityFeePerBid |-> DefaultMinPriorityFeePerBid,
               entryPointAddress |-> "0xEP",
               chain |-> "chain"]
    /\ mw = DefaultMiddleware
    /\ pc = "idle"
    /\ call = NoCall
    /\ pipe = <<>>
    /\ stage = 0
    /\ struct = EmptyStruct
    /\ request = Unset
    /\ prio = Unset
    /\ feeData = Unset
    /\ hash = Unset
    /\ i = 0
    /\ receipt = Unset
    /\ queried = Unset
    /\ transaction = Unset
    /\ answers = NoAnswers
    /\ outcome = Pending
    /\ calls = NoCalls
    /\ log = <<>>
    /\ budget = MaxOverrides
    /\ polled = {}
    /\ forwarded = Unset
    /\ subs = [s \in Subs |-> NoSub]
    /\ heap = [r \in Subs |-> Unset]
    /\ since = {}

(* the steps of a go in progress *)
goStep ==
    \/ whileTest
    \/ handlerBegin
    \/ getSupportedEntryPointsReturn
    \/ baseSignerGetAddressReturn
    \/ lambdaReturn
    \/ timerFires
    \/ signerGetAddressReturn
    \/ mintReturn
    \/ ownerGetAddressReturn
    \/ updateStep

NextOnboarding ==
    \/ go
    \/ reset
    \/ goStep

SpecOnboarding == InitOnboarding /\ [][NextOnboarding]_vars

(* every awaited promise settles and the continuation of the go in progress
   is run *)
SpecOnboardingLive == SpecOnboarding /\ WF_vars(goStep)

----------------------------------------------------------------------------
(* Properties *)

Lookups == calls["getUserOperationReceipt"]
Misses == answers.null + answers.error

(* C1: confirmation poller success. When the first k receipt lookups (k less
   than txMaxRetries) yield no receipt, by not-found or by a lookup error, and
   lookup k+1 yields a receipt, the poller has made exactly k+1 lookups, asks
   getTransaction exactly once, for the receipt's transactionHash, makes no
   further lookup, and returns the hash of the transaction it resolved *)
C1_PollerSuccess ==
    /\ pc = "getTransaction" =>
        /\ IsSet(receipt)
        /\ Misses < opts.txMaxRetries
        /\ Lookups = Misses + 1
        /\ calls["getTransaction"] = 1
        /\ queried = Some(Val(receipt).transactionHash)
    /\ (pc = "done" /\ IsSet(receipt)) =>
        /\ Misses < opts.txMaxRetries
        /\ Lookups = Misses + 1
        /\ answers.receipt = 1
        /\ calls["getTransaction"] = 1
        /\ queried = Some(Val(receipt).transactionHash)
        /\ IsSet(transaction) =>
            outcome = Returned(Val(transaction).hash)

(* the receipt came on the last attempt of the default budget, after misses of
   both kinds, and the transaction hash was returned *)
C1_Witness ==
    /\ pc = "done"
    /\ outcome.status = "returned"
    /\ IsSet(receipt)
    /\ opts.txMaxRetries = DefaultTxMaxRetries
    /\ Misses = DefaultTxMaxRetries - 1
    /\ answers.error > 0
    /\ answers.null > 0
    /\ outcome.value # Val(receipt).transactionHash

(* C2: confirmation poller timeout. When no lookup yields a receipt, whatever
   the mix of not-found answers and lookup errors, the poller fails with the
   timeout error after exactly txMaxRetries lookups, getTransaction is never
   called and no lookup error reaches the caller *)
C2_PollerTimeout ==
    /\ (pc = "done" /\ IsSet(hash) /\ call.kind = "sendTransaction"
            /\ answers.receipt = 0) =>
        /\ outcome = Threw("Failed to find transaction for User Operation")
        /\ Lookups = opts.txMaxRetries
        /\ Misses = opts.txMaxRetries
        /\ calls["getTransaction"] = 0
    /\ (pc \in {"poll", "getUserOperationReceipt"}) =>
        /\ outcome = Pending
        /\ Lookups <= opts.txMaxRetries
        /\ calls["getTransaction"] = 0
    /\ outcome.error # "getUserOperationReceipt failed"

(* the default budget was used up by lookups of which some rejected *)
C2_Witness ==
    /\ pc = "done"
    /\ outcome = Threw("Failed to find transaction for User Operation")
    /\ opts.txMaxRetries = DefaultTxMaxRetries
    /\ answers.error > 1
    /\ answers.null > 1

(* the fields of a request that are undefined *)
UnsetFields(r) == {f \in DOMAIN r : r[f] = Unset}

Events == {log[n] : n \in 1..Len(log)}

(* C3: validation gate. If the draft the four stages produced still has a
   field unset after encoding, sendUserOperation fails with the
   incomplete-request error and neither signMessage nor the bundler's
   sendUserOperation is invoked; both are invoked only after validation has
   accepted the encoded request *)
C3_ValidationGate ==
    /\ (IsSet(request) /\ UnsetFields(Val(request)) # {}) =>
        /\ pc = "done"
        /\ outcome = Threw("Request is missing parameters")
        /\ calls["signMessage"] = 0
        /\ calls["sendUserOperation"] = 0
    /\ (calls["signMessage"] > 0 \/ calls["sendUserOperation"] > 0) =>
        <<"validate", "end">> \in Events
    /\ pc \in {"signMessage", "sendUserOperation"} =>
        IsSet(request) /\ UnsetFields(Val(request)) = {}

(* a stage left its fields unset (noOpMiddleware as fee stage) while the gas
   estimates had been written, and the submission failed at the gate *)
C3_Witness ==
    /\ pc = "done"
    /\ outcome = Threw("Request is missing parameters")
    /\ IsSet(request)
    /\ "maxFeePerGas" \in UnsetFields(Val(request))
    /\ "callGasLimit" \notin UnsetFields(Val(request))
    /\ calls["estimateUserOperationGas"] = 1

ExpectedLog ==
    << <<"dummyPaymasterDataMiddleware", "begin">>,
       <<"dummyPaymasterDataMiddleware", "end">>,
       <<"gasEstimator", "begin">>, <<"gasEstimator", "end">>,
       <<"feeDataGetter", "begin">>, <<"feeDataGetter", "end">>,
       <<"paymasterMiddleware", "begin">>, <<"paymasterMiddleware", "end">>,
       <<"validate", "begin">>, <<"validate", "end">>,
       <<"signMessage", "begin">>, <<"signMessage", "end">>,
       <<"sendUserOperation", "begin">>, <<"sendUserOperation", "end">> >>

IsPrefix(a, b) == Len(a) <= Len(b) /\ a = SubSeq(b, 1, Len(a))

(* C4: pipeline ordering. Within one sendUserOperation the steps begin and
   end in the order dummy paymaster, gas estimator, fee data, paymaster,
   validation, signing, bundler submission; each begins only after the one
   before it has ended, none runs twice and no two are in progress together;
   a submission that obtained its hash ran every one of them exactly once *)
C4_PipelineOrder ==
    /\ IsPrefix(log, ExpectedLog)
    /\ IsSet(hash) => log = ExpectedLog

(* a submission through overridden stages obtained its hash *)
C4_Witness ==
    /\ pc = "done"
    /\ call.kind = "sendUserOperation"
    /\ outcome = Returned(UoHash)
    /\ log = ExpectedLog
    /\ calls["estimateUserOperationGas"] = 1
    /\ calls["getFeeData"] = 1

(* the call is over and failed inside sendUserOperation *)
SubmissionFailed ==
    /\ pc = "done"
    /\ outcome.status = "threw"
    /\ call.kind = "sendUserOperation" \/ (IsSet(call.to) /\ ~IsSet(hash))

(* C5 as stated: whenever sendUserOperation fails, the bundler's
   sendUserOperation has not been invoked for that submission *)
C5_Original ==
    SubmissionFailed => calls["sendUserOperation"] = 0

(* C5, amended: sendUserOperation either returns the hash and the complete
   request, after one bundler submission, or fails; when it fails, either the
   bundler's sendUserOperation was not invoked or the failure is that
   invocation's own and no hash was obtained *)
C5_NoPartialSuccess ==
    /\ SubmissionFailed =>
        \/ calls["sendUserOperation"] = 0
        \/ /\ outcome = Threw("bundler sendUserOperation failed")
           /\ calls["sendUserOperation"] = 1
           /\ ~IsSet(hash)
    /\ (pc = "done" /\ call.kind = "sendUserOperation"
            /\ outcome.status = "returned") =>
        /\ outcome = Returned(UoHash)
        /\ hash = Some(UoHash)
        /\ IsSet(request) /\ UnsetFields(Val(request)) = {}
        /\ Val(request).signature = Some("0xsig")
        /\ calls["sendUserOperation"] = 1

(* the bundler rejected the one submission made *)
C5_Witness ==
    /\ SubmissionFailed
    /\ outcome = Threw("bundler sendUserOperation failed")
    /\ calls["sendUserOperation"] = 1
    /\ calls["signMessage"] = 1

(* the default fee-data stage has written its bids and not yet returned *)
FeeStageCompleted ==
    /\ pc = "stageEnd"
    /\ pipe[stage] = <<"feeDataGetter", "default">>

Floor43(s) == (s * 4) \div 3

(* C6: priority-fee bid. For every suggested priority fee s >= 0 and minimum
   bid m the default fee-data stage writes max(floor(s*4/3), m) as
   maxPriorityFeePerGas *)
C6_PriorityFeeBid ==
    FeeStageCompleted =>
        /\ IsSet(prio) /\ Val(prio) >= 0
        /\ struct.maxPriorityFeePerGas =
              Some(IF Floor43(Val(prio)) >= opts.minPriorityFeePerBid
                   THEN Floor43(Val(prio)) ELSE opts.minPriorityFeePerBid)

(* s = 2 bids 2 (8/3 truncated) above the minimum 1 *)
C6_Witness ==
    /\ FeeStageCompleted
    /\ Val(prio) = 2
    /\ opts.minPriorityFeePerBid = 1
    /\ struct.maxPriorityFeePerGas = Some(2)

(* C7: base-fee headroom. Whenever the default fee-data stage completes, the
   maxFeePerGas it wrote minus the maxPriorityFeePerGas it wrote equals
   feeData.maxFeePerGas minus feeData.maxPriorityFeePerGas *)
C7_HeadroomPreserved ==
    FeeStageCompleted =>
        /\ IsSet(feeData)
        /\ IsSet(struct.maxFeePerGas) /\ IsSet(struct.maxPriorityFeePerGas)
        /\ Val(struct.maxFeePerGas) - Val(struct.maxPriorityFeePerGas)
             = Val(Val(feeData).maxFeePerGas)
                 - Val(Val(feeData).maxPriorityFeePerGas)

(* headroom 1 kept over a bid raised to the default minimum *)
C7_Witness ==
    /\ FeeStageCompleted
    /\ Val(feeData) = [maxFeePerGas |-> Some(2), maxPriorityFeePerGas |-> Some(1)]
    /\ opts.minPriorityFeePerBid = DefaultMinPriorityFeePerBid
    /\ struct.maxPriorityFeePerGas = Some(DefaultMinPriorityFeePerBid)
    /\ struct.maxFeePerGas = Some(DefaultMinPriorityFeePerBid + 1)

(* C8: unbound account. With no account attached sendUserOperation fails
   with the account-not-connected error before any account or bundler call
   and before any stage runs; once connect has attached an account the call
   goes on to getInitCode and the pipeline *)
C8_UnboundAccount ==
    /\ [](/\ pc \notin {"idle", "done"} => account = Account
          /\ (pc = "done" /\ outcome = Threw("account not connected!")) =>
                /\ calls = NoCalls
                /\ log = <<>>
                /\ struct = EmptyStruct
                /\ request = Unset
          /\ (pc = "done" /\ account = "none" /\ IsSet(call.to)) =>
                outcome = Threw("account not connected!"))
    /\ [][sendUserOperation =>
            IF account = "none"
            THEN pc' = "done" /\ outcome' = Threw("account not connected!")
                 /\ calls' = NoCalls
            ELSE pc' = "getInitCode" /\ outcome' = Pending
                 /\ calls' = Invoke(NoCalls, {"getInitCode"})]_vars

(* the call failed on the unbound provider *)
C8_Witness ==
    /\ pc = "done"
    /\ call.kind = "sendUserOperation"
    /\ account = "none"
    /\ outcome = Threw("account not connected!")

(* C9: missing recipient. sendTransaction with a request that has no to fails
   at once with the invalid-recipient error, without any account call, bundler
   call or polling, whether or not an account is bound *)
C9_MissingRecipient ==
    /\ (call.kind = "sendTransaction" /\ ~IsSet(call.to)) =>
        /\ pc = "done"
        /\ outcome = Threw("transaction is missing to address")
        /\ calls = NoCalls
        /\ log = <<>>
        /\ answers = NoAnswers
        /\ hash = Unset
    /\ outcome.error = "transaction is missing to address" =>
        call.kind = "sendTransaction" /\ ~IsSet(call.to)

(* the request without to was rejected on a provider with a bound account *)
C9_Witness ==
    /\ pc = "done"
    /\ account = Account
    /\ call.kind = "sendTransaction"
    /\ ~IsSet(call.to)
    /\ outcome = Threw("transaction is missing to address")

(* the fee data received lack one of the two values *)
FeeDataLacking ==
    /\ IsSet(feeData)
    /\ \/ Val(feeData).maxFeePerGas = Unset
       \/ Val(feeData).maxPriorityFeePerGas = Unset

(* C10: missing fee data. If getFeeData's result lacks maxFeePerGas or
   maxPriorityFeePerGas, the default fee-data stage fails with the
   invalid-fee-data error, the draft's maxFeePerGas and maxPriorityFeePerGas
   stay unwritten, and the submission ends without the paymaster stage,
   signing or bundler submission *)
C10_MissingFeeData ==
    FeeDataLacking =>
        /\ pc = "done"
        /\ outcome = Threw("feeData is missing maxFeePerGas or maxPriorityFeePerGas")
        /\ struct.maxFeePerGas = Unset
        /\ struct.maxPriorityFeePerGas = Unset
        /\ <<"paymasterMiddleware", "begin">> \notin Events
        /\ <<"feeDataGetter", "end">> \notin Events
        /\ request = Unset
        /\ calls["signMessage"] = 0
        /\ calls["sendUserOperation"] = 0

(* only maxPriorityFeePerGas was missing, after the gas estimates were written *)
C10_Witness ==
    /\ pc = "done"
    /\ IsSet(feeData)
    /\ Val(feeData) = [maxFeePerGas |-> Some(2), maxPriorityFeePerGas |-> Unset]
    /\ outcome = Threw("feeData is missing maxFeePerGas or maxPriorityFeePerGas")
    /\ IsSet(struct.callGasLimit)

----------------------------------------------------------------------------
(* Overrides *)

StageNames == {"dummyPaymasterDataMiddleware", "gasEstimator", "feeDataGetter",
               "paymasterMiddleware"}

(* the implementation a composed pipeline p holds for the stage named n *)
BoundIn(p, n) == p[CHOOSE k \in DOMAIN p : p[k][1] = n][2]

Ended(n) == <<n, "end">> \in Events

(* what a paymaster stage run as impl leaves in paymasterAndData, given the
   value the field held before *)
PaymasterDataOf(impl, before) ==
    CASE impl = "default" -> Some("0x")
      [] impl = "custom" -> Some("0xPM")
      [] OTHER -> before

(* the traces the stage named n leaves when it ran as impl: the bundler calls
   it made and the fields of the draft it wrote *)
RanAs(n, impl) ==
    CASE n = "gasEstimator" ->
            /\ calls["estimateUserOperationGas"] = (IF impl = "default" THEN 1 ELSE 0)
            /\ struct.callGasLimit =
                 (CASE impl = "default" -> Some(GasEstimate.callGasLimit)
                    [] impl = "custom" -> Some(1)
                    [] OTHER -> Unset)
      [] n = "feeDataGetter" ->
            /\ calls["getMaxPriorityFeePerGas"] = (IF impl = "default" THEN 1 ELSE 0)
            /\ calls["getFeeData"] = (IF impl = "default" THEN 1 ELSE 0)
            /\ CASE impl = "default" -> IsSet(struct.maxPriorityFeePerGas)
                 [] impl = "custom" -> struct.maxPriorityFeePerGas = Some(1)
                                       /\ struct.maxFeePerGas = Some(9)
                 [] OTHER -> struct.maxPriorityFeePerGas = Unset
      [] n = "dummyPaymasterDataMiddleware" ->
            <<"paymasterMiddleware", "begin">> \notin Events =>
                struct.paymasterAndData = PaymasterDataOf(impl, Unset)
      [] OTHER ->
            struct.paymasterAndData =
                PaymasterDataOf(impl,
                    PaymasterDataOf(BoundIn(pipe, "dummyPaymasterDataMiddleware"),
                                    Unset))

(* every stage that has ended ran as the implementation the composed
   pipeline holds for it *)
StagesRunAsComposed ==
    pipe # <<>> => \A n \in StageNames : Ended(n) => RanAs(n, BoundIn(pipe, n))

(* a pipeline is composed in this step *)
Composes == pipe = <<>> /\ pipe' # <<>>

(* the withX call for the stage named n, whatever function it is given *)
OverrideOf(n) ==
    CASE n = "gasEstimator" -> withGasEstimator
      [] n = "feeDataGetter" -> withFeeDataGetter
      [] OTHER -> withPaymasterMiddleware

(* C11: override persistence. After withGasEstimator(f), withFeeDataGetter(f)
   or withPaymasterMiddleware with f under a key has returned, the stage's
   binding is f and stays f until a withX call for that same stage is made;
   every pipeline composed meanwhile holds f for that stage, however many
   submissions are made, and the stage of each such submission runs as f and
   not as the default *)
C11_OverridePersistence ==
    /\ []StagesRunAsComposed
    /\ [][/\ \A f \in Overrides :
                /\ withGasEstimatorCall(f) => mw'.gasEstimator = f
                /\ withFeeDataGetterCall(f) => mw'.feeDataGetter = f
                /\ \A g \in Overrides \cup {"undefined"} :
                      /\ withPaymasterMiddlewareCall(f, g) =>
                            mw'.dummyPaymasterDataMiddleware = f
                      /\ withPaymasterMiddlewareCall(g, f) =>
                            mw'.paymasterMiddleware = f
          /\ \A n \in StageNames : mw'[n] # mw[n] => OverrideOf(n)
          /\ Composes => \A n \in StageNames : BoundIn(pipe', n) = mw[n]]_vars

(* a submission made with the gas estimator and the fee-data getter the
   provider was given has run both as given and returned its hash; the
   default stages would have called the bundler *)
C11_Witness ==
    /\ pc = "done"
    /\ call.kind = "sendUserOperation"
    /\ outcome = Returned(UoHash)
    /\ mw.gasEstimator = "custom"
    /\ BoundIn(pipe, "gasEstimator") = "custom"
    /\ struct.callGasLimit = Some(1)
    /\ calls["estimateUserOperationGas"] = 0

----------------------------------------------------------------------------
(* Failures outside the poller *)

(* the awaited account and bundler calls of one sendUserOperation, in the
   order of the awaits, each with the stage or step that makes it and the
   error its failure raises *)
AwaitedCalls ==
    << [name |-> "getInitCode", step |-> "none",
        error |-> "getInitCode failed"],
       [name |-> "estimateUserOperationGas", step |-> "gasEstimator",
        error |-> "estimateUserOperationGas failed"],
       [name |-> "getMaxPriorityFeePerGas", step |-> "feeDataGetter",
        error |-> "getMaxPriorityFeePerGas failed"],
       [name |-> "getFeeData", step |-> "feeDataGetter",
        error |-> "getFeeData failed"],
       [name |-> "signMessage", step |-> "signMessage",
        error |-> "signMessage failed"],
       [name |-> "sendUserOperation", step |-> "sendUserOperation",
        error |-> "bundler sendUserOperation failed"] >>

(* the call at position k failed: the caller has the failure, the step that
   made the call is the last one begun and it never ended, and no call that
   follows it was made *)
FailedAt(k) ==
    LET c == AwaitedCalls[k]
    IN  /\ pc = "done"
        /\ calls[c.name] = 1
        /\ IF c.step = "none" THEN log = <<>>
           ELSE log # <<>> /\ log[Len(log)] = <<c.step, "begin">>
        /\ \A j \in (k + 1)..Len(AwaitedCalls) :
              AwaitedCalls[j].name # c.name => calls[AwaitedCalls[j].name] = 0
        /\ hash = Unset
        /\ calls["getUserOperationReceipt"] = 0

(* C12: single attempt outside the poller. Within one call each of
   getInitCode, estimateUserOperationGas, getMaxPriorityFeePerGas, getFeeData,
   signMessage and the bundler's sendUserOperation is invoked at most once;
   when one of them fails the caller gets that failure and no later step of
   the submission is executed. A getTransaction failure after a receipt was
   found reaches the caller after a single getTransaction call. Once a call
   has ended, no collaborator is invoked and no step is run until the next
   call is made *)
C12_SingleAttempt ==
    /\ [](/\ \A k \in DOMAIN AwaitedCalls : calls[AwaitedCalls[k].name] <= 1
          /\ calls["getTransaction"] <= 1
          /\ \A k \in DOMAIN AwaitedCalls :
                outcome = Threw(AwaitedCalls[k].error) => FailedAt(k)
          /\ outcome = Threw("getTransaction failed") =>
                /\ pc = "done"
                /\ IsSet(receipt)
                /\ calls["getTransaction"] = 1
                /\ transaction = Unset)
    /\ [][pc = "done" /\ ~sendUserOperation /\ ~sendTransaction =>
            pc' = "done" /\ calls' = calls /\ log' = log /\ outcome' = outcome]_vars

(* getFeeData failed after the suggested priority fee had been fetched: the
   paymaster stage, validation, signing and submission were not run *)
C12_Witness ==
    /\ outcome = Threw("getFeeData failed")
    /\ calls["getMaxPriorityFeePerGas"] = 1
    /\ calls["getFeeData"] = 1
    /\ calls["estimateUserOperationGas"] = 1
    /\ calls["signMessage"] = 0

----------------------------------------------------------------------------
(* The transaction facade *)

(* sendTransaction was called with a request that names its target *)
TargetedTransaction ==
    /\ call.kind = "sendTransaction"
    /\ IsSet(call.args)
    /\ IsSet(Val(call.args).to)

(* the number a hex value stands for, found by encoding *)
Decoded(h) == CHOOSE n \in 0..255 : toHex(n) = h

(* the call the user operation of the transaction tx has to make *)
CallOf(tx) ==
    << Val(tx.to),
       IF IsSet(tx.value) THEN Decoded(Val(tx.value)) ELSE 0,
       IF IsSet(tx.data) THEN Val(tx.data) ELSE "0x" >>

Submitted == <<"sendUserOperation", "end">> \in Events

(* C13: transaction facade end to end. sendTransaction with a target submits
   one user operation, whose call is the transaction's to, its decoded value
   or zero and its data or the empty payload; the bundler's sendUserOperation
   is never invoked a second time. No receipt lookup is made before the
   bundler returned the submission hash, and every lookup asks for that hash.
   A returned value is the hash of the transaction looked up under the
   receipt's transaction hash. A confirmation timeout comes after
   txMaxRetries lookups, with the operation submitted once and its hash
   obtained *)
C13_TransactionFacade ==
    TargetedTransaction =>
        /\ calls["sendUserOperation"] <= 1
        /\ pipe # <<>> => struct.callData = Some(CallOf(Val(call.args)))
        /\ pc = "sendUserOperation" =>
              /\ calls["sendUserOperation"] = 1
              /\ Val(request).callData = Some(CallOf(Val(call.args)))
        /\ ~Submitted => calls["getUserOperationReceipt"] = 0 /\ polled = {}
        /\ Submitted =>
              /\ hash = Some(UoHash)
              /\ calls["sendUserOperation"] = 1
              /\ polled \subseteq {Val(hash)}
              /\ calls["getUserOperationReceipt"] > 0 => polled = {Val(hash)}
        /\ outcome.status = "returned" =>
              /\ Submitted
              /\ IsSet(receipt)
              /\ queried = Some(Val(receipt).transactionHash)
              /\ calls["getTransaction"] = 1
              /\ outcome = Returned(Val(transaction).hash)
        /\ outcome = Threw("Failed to find transaction for User Operation") =>
              /\ Submitted
              /\ receipt = Unset
              /\ calls["getUserOperationReceipt"] = opts.txMaxRetries
              /\ calls["getTransaction"] = 0

(* a transaction with data and a value was submitted, a first lookup found
   no receipt, a later one did, and the transaction's hash was returned *)
C13_Witness ==
    /\ TargetedTransaction
    /\ IsSet(Val(call.args).value)
    /\ pc = "done"
    /\ outcome.status = "returned"
    /\ answers.null >= 1
    /\ polled = {UoHash}
    /\ calls["sendUserOperation"] = 1

----------------------------------------------------------------------------
(* The RPC surface *)

SignRequest == call.kind = "request" /\ Val(call.args).method \in SignMethods

ForwardedRequest ==
    call.kind = "request" /\ Val(call.args).method \notin SignMethods

(* the address a sign request names: eth_sign takes (address, message),
   personal_sign takes (message, address) *)
RequestedAddress(args) ==
    IF args.method = "eth_sign" THEN args.params[1] ELSE args.params[2]

(* the sign methods, with the address asked for taken to be a(args): no
   signMessage call without a bound account and an address equal to the
   account's; the not-connected error with no account; the signer-mismatch
   error for another address *)
SignDispatch(a(_)) ==
    SignRequest =>
        /\ calls["signMessage"] > 0 =>
              account = Account /\ a(Val(call.args)) = Address
        /\ (pc = "done" /\ account = "none") =>
              outcome = Threw("account not connected!") /\ calls = NoCalls
        /\ (pc = "done" /\ a(Val(call.args)) # Address) =>
              /\ outcome \in {Threw("account not connected!"),
                              Threw("cannot sign for address that is not the current account"),
                              Threw("getAddress failed")}
              /\ calls["signMessage"] = 0

(* every other method reaches rpcClient.request with the arguments request
   was given, whether or not an account is attached, and nothing else is
   called *)
ForwardDispatch ==
    ForwardedRequest =>
        /\ forwarded = call.args
        /\ calls = Invoke(NoCalls, {"request"})
        /\ pc = "done" => outcome \in {Returned("0xresult"),
                                       Threw("rpcClient.request failed")}

SecondParameter(args) == signAddress(args.params)

(* the dispatch as the code reads a sign request: the address is the second
   parameter, for eth_sign as for personal_sign *)
SignsForSecondParameter == SignDispatch(SecondParameter) /\ ForwardDispatch

(* C14: RPC surface dispatch. request with eth_sign or personal_sign calls
   the account's signMessage only when an account is bound and the address
   the request names equals the account's address; with no account it fails
   with the account-not-connected error and with another address with the
   signer-mismatch error, signMessage not being called in either case. Every
   other method except eth_sendTransaction is forwarded unmodified to the
   bundler client, also when no account is attached *)
C14_Original == SignDispatch(RequestedAddress) /\ ForwardDispatch

----------------------------------------------------------------------------
(* Submissions in flight together *)

(* the draft submission s arrives at when it runs alone: built from what its
   own account and bundler calls returned *)
OwnDraft(s) ==
    paymasterMiddleware(
        feeDataGetterWrite(
            gasEstimatorWrite(
                dummyPaymasterDataMiddleware(
                    InitialStruct(InitCodeOf(s), TargetOf(s), 0, "0xD")),
                EstimateFor(s)),
            SuggestedFor(s), FeeDataFor(s), opts.minPriorityFeePerBid))

OwnRequest(s) ==
    [deepHexlify(OwnDraft(s)) EXCEPT !.signature = Some(SignatureFor(s))]

HasDraft(s) == subs[s].ref # 0

(* C15: concurrent submissions do not share draft state. For every
   interleaving of sendUserOperation calls in flight on one provider with the
   default stages: the drafts of two calls are different objects; every
   field of a call's draft is unwritten or holds the value the call's own
   account and bundler answers give it; the request handed to the bundler is
   the one the call would have produced alone; and a step of one call leaves
   the draft of every other call as it was *)
C15_DraftsNotShared ==
    /\ [](\A s \in Subs :
            /\ \A t \in Subs \ {s} :
                  HasDraft(s) /\ HasDraft(t) => subs[s].ref # subs[t].ref
            /\ HasDraft(s) =>
                  \A f \in DOMAIN Draft(s) :
                      Draft(s)[f] \in {Unset, OwnDraft(s)[f],
                                       InitialStruct(InitCodeOf(s), TargetOf(s), 0,
                                                     "0xD")[f]}
            /\ (At(s, "sendUserOperation") \/ IsSet(subs[s].hash)) =>
                  subs[s].request = Some(OwnRequest(s)))
    /\ [][\A s \in Subs :
            (HasDraft(s) /\ subs'[s] = subs[s]) => heap'[subs[s].ref] = Draft(s)]_vars

(* two submissions are in flight with a draft each: the first has its gas
   estimates and waits for its fee data, the second waits for its estimates *)
C15_Witness ==
    /\ At(1, "getFeeData")
    /\ At(2, "estimateUserOperationGas")
    /\ HasDraft(1) /\ HasDraft(2)
    /\ Draft(1).callGasLimit = Some(EstimateFor(1).callGasLimit)
    /\ Draft(2).callGasLimit = Unset
    /\ Draft(2).callData = Some(<<TargetOf(2), 0, "0xD">>)

----------------------------------------------------------------------------
(* Overrides made while a submission is in flight *)

WithX == withGasEstimator \/ withFeeDataGetter \/ withPaymasterMiddleware

(* C16: stage bindings are snapshotted per submission. The four stages a
   submission runs are the bindings in place when its pipeline is composed,
   after its init-code fetch: an override made between the call of
   sendUserOperation and that moment is in the pipeline, and a withX call
   made once the pipeline is composed changes neither the pipeline nor the
   draft; whatever the provider's bindings have become, a stage in progress
   is the pipeline's and every stage that has ended ran as the pipeline's *)
C16_BindingsSnapshotted ==
    /\ [](/\ StagesRunAsComposed
          /\ pc = "estimateUserOperationGas" =>
                pipe[stage] = <<"gasEstimator", "default">>
          /\ pc \in {"getMaxPriorityFeePerGas", "getFeeData"} =>
                pipe[stage] = <<"feeDataGetter", "default">>
          /\ since # {} => pc = "getInitCode")
    /\ [][/\ Composes =>
                /\ pipe' = Pipeline(mw)
                /\ \A n \in since : BoundIn(pipe', n) = mw[n]
          /\ (pipe # <<>> /\ pipe' # <<>>) => pipe' = pipe
          /\ WithX => /\ pipe' = pipe /\ stage' = stage /\ struct' = struct
                      /\ pc' = pc /\ request' = request]_vars

(* the fee-data getter was overridden after the pipeline was composed with
   the default one; the gas stage has ended and the fee-data stage is next *)
C16_Witness ==
    /\ pc = "stageBegin"
    /\ pipe[stage] = <<"feeDataGetter", "default">>
    /\ mw.feeDataGetter = "custom"
    /\ Ended("gasEstimator")

(* the gas estimator was overridden after sendUserOperation was called and
   before its init code arrived *)
OverriddenBeforeComposition ==
    /\ pc = "getInitCode"
    /\ since = {"gasEstimator"}
    /\ mw.gasEstimator = "custom"

----------------------------------------------------------------------------
(* What the withX calls leave alone *)

(* the account, the entry point, the chain, the retry policy and the minimum
   priority-fee bid are what they were *)
ConfigurationKept == account' = account /\ opts' = opts

(* C17: frame of the overrides. withGasEstimator changes the gas-estimator
   binding and no other, withFeeDataGetter the fee-data binding and no
   other; withPaymasterMiddleware changes neither of these, and a stage whose
   key it is called without keeps its current binding. No withX call changes
   the bound account, the entry point, the chain, the retry policy or the
   minimum priority-fee bid *)
C17_OverrideFrame ==
    [][/\ \A f \in Overrides :
            /\ withGasEstimatorCall(f) =>
                  /\ \A n \in StageNames \ {"gasEstimator"} : mw'[n] = mw[n]
                  /\ ConfigurationKept
            /\ withFeeDataGetterCall(f) =>
                  /\ \A n \in StageNames \ {"feeDataGetter"} : mw'[n] = mw[n]
                  /\ ConfigurationKept
       /\ \A d \in Overrides \cup {"undefined"}, p \in Overrides \cup {"undefined"} :
            withPaymasterMiddlewareCall(d, p) =>
                /\ mw'.gasEstimator = mw.gasEstimator
                /\ mw'.feeDataGetter = mw.feeDataGetter
                /\ d = "undefined" =>
                      mw'.dummyPaymasterDataMiddleware = mw.dummyPaymasterDataMiddleware
                /\ p = "undefined" => mw'.paymasterMiddleware = mw.paymasterMiddleware
                /\ ConfigurationKept]_vars

(* withPaymasterMiddleware was called with getPaymasterAndDataMiddleware
   alone: the dummy paymaster stage is still the class's own *)
C17_Witness ==
    /\ budget < MaxOverrides
    /\ mw = [DefaultMiddleware EXCEPT !.paymasterMiddleware = "custom"]

----------------------------------------------------------------------------
(* The default paymaster stage *)

DefaultStage4 == <<"paymasterMiddleware", "default">>

(* the default stage 4 of the pipeline runs in this step *)
DefaultStage4Runs == pc = "stageBegin" /\ pipe[stage] = DefaultStage4 /\ pc' = "stageEnd"

(* the pipeline in use has the default stage 4, which has ended *)
DefaultStage4Ended ==
    /\ pipe # <<>>
    /\ BoundIn(pipe, "paymasterMiddleware") = "default"
    /\ Ended("paymasterMiddleware")

(* C18 as claimed: the default stage 4 leaves paymasterAndData as the draft
   carried it when the stage began, whatever stage 1 is bound to, so the
   request built from the draft has the value stage 1 left *)
C18_Original ==
    /\ [][DefaultStage4Runs => struct'.paymasterAndData = struct.paymasterAndData]_vars
    /\ []((DefaultStage4Ended /\ IsSet(request)) =>
            Val(request).paymasterAndData =
                PaymasterDataOf(BoundIn(pipe, "dummyPaymasterDataMiddleware"), Unset))

(* C18, amended: with the default stage 4 the paymasterAndData of the draft,
   and of the request built from it, is the empty byte string whatever
   stage 1 wrote; the stage leaves the value it found only when that was the
   empty byte string already, as it is after the default stage 1 *)
C18_DefaultPaymasterEmpty ==
    /\ [][DefaultStage4Runs =>
            /\ struct'.paymasterAndData = Some("0x")
            /\ struct'.paymasterAndData = struct.paymasterAndData
                  <=> struct.paymasterAndData = Some("0x")
            /\ BoundIn(pipe, "dummyPaymasterDataMiddleware") = "default" =>
                  struct.paymasterAndData = Some("0x")]_vars
    /\ [](DefaultStage4Ended =>
            /\ struct.paymasterAndData = Some("0x")
            /\ IsSet(request) => Val(request).paymasterAndData = Some("0x"))

(* stage 1 was overridden alone and wrote its own paymaster data; gas was
   estimated, the default stage 4 ran, and the request for the bundler has
   the empty byte string *)
C18_Witness ==
    /\ pc = "sendUserOperation"
    /\ pipe[1] = <<"dummyPaymasterDataMiddleware", "custom">>
    /\ pipe[2] = <<"gasEstimator", "default">>
    /\ pipe[4] = DefaultStage4
    /\ Val(request).paymasterAndData = Some("0x")

----------------------------------------------------------------------------
(* The fee data the default fee-data stage accepts, and the bids it writes *)

InvalidFeeData == Threw("feeData is missing maxFeePerGas or maxPriorityFeePerGas")

(* getFeeData has answered with both values, each a non-negative integer *)
FeeDataPresent ==
    /\ IsSet(feeData)
    /\ IsSet(Val(feeData).maxFeePerGas) /\ Val(Val(feeData).maxFeePerGas) >= 0
    /\ IsSet(Val(feeData).maxPriorityFeePerGas)
    /\ Val(Val(feeData).maxPriorityFeePerGas) >= 0

(* C19: the default fee-data stage fails with the invalid-fee-data error only
   when getFeeData's answer lacks maxFeePerGas or maxPriorityFeePerGas; when
   both are there as non-negative integers, zero included, the stage
   completes and both bids are written *)
C19_Original ==
    /\ outcome = InvalidFeeData => FeeDataLacking
    /\ FeeDataPresent =>
          /\ pc = "stageEnd"
          /\ IsSet(struct.maxFeePerGas)
          /\ IsSet(struct.maxPriorityFeePerGas)

(* C20: fee fields stay unsigned and ordered. For all non-negative suggested
   priority fees, fee data and minimum bids, when the default fee-data stage
   completes the maxFeePerGas it wrote is non-negative and not less than the
   maxPriorityFeePerGas it wrote *)
C20_Original ==
    FeeStageCompleted =>
        /\ Val(struct.maxFeePerGas) >= 0
        /\ Val(struct.maxFeePerGas) >= Val(struct.maxPriorityFeePerGas)

----------------------------------------------------------------------------
(* The onboarding example *)

(* the order the steps are to be visited in, FILL_SCWALLET left out with the
   gas manager *)
StepOrder(useGasManager) ==
    IF useGasManager
    THEN <<"INITIAL_STEP", "GET_ENTRYPOINT", "CREATE_SCWALLET", "MINT_NFT",
           "CHECK_OP_COMPLETE", "STORE_SCWALLET", "DONE">>
    ELSE <<"INITIAL_STEP", "GET_ENTRYPOINT", "CREATE_SCWALLET", "FILL_SCWALLET",
           "MINT_NFT", "CHECK_OP_COMPLETE", "STORE_SCWALLET", "DONE">>

Running == IsSet(inMemStep)

(* the handlers invoked by the go in progress are consecutive steps of the
   order, and the step in hand is the one after the last of them *)
VisitedInOrder ==
    LET order == StepOrder(Val(Context.useGasManager))
    IN  \E first \in 1..Len(order) :
            /\ \A k \in 1..Len(visited) :
                    first + k - 1 <= Len(order) /\ visited[k] = order[first + k - 1]
            /\ at \in {"while", "handler"} =>
                    first + Len(visited) <= Len(order)
                    /\ Identifier = order[first + Len(visited)]
            /\ at \notin {"while", "handler"} =>
                    visited # <<>> /\ Identifier = visited[Len(visited)]

(* the run settles *)
RunEnds == at # "idle" /\ at' = "idle"

(* C21: onboarding step order. The handlers a go invokes are, in this order
   and one at a time, INITIAL_STEP, GET_ENTRYPOINT, CREATE_SCWALLET,
   FILL_SCWALLET only when useGasManager is false, MINT_NFT,
   CHECK_OP_COMPLETE, STORE_SCWALLET (from the current step on; the first go
   starts from INITIAL_STEP); no handler is invoked twice in one run; the
   handler of DONE is never invoked and a run that no handler failed ends
   exactly with the identifier DONE; every run ends, with a handler's error
   or at DONE *)
C21_StepOrder ==
    /\ [](Running =>
            /\ VisitedInOrder
            /\ \A j, k \in 1..Len(visited) : visited[j] = visited[k] => j = k
            /\ "DONE" \notin {visited[k] : k \in 1..Len(visited)}
            /\ at = "handler" => Identifier # "DONE"
            /\ (runsLeft = MaxRuns - 1 /\ visited # <<>>) =>
                    visited[1] = "INITIAL_STEP")
    /\ [][RunEnds =>
            \/ goOutcome'.status = "threw" /\ threw' # threw
            \/ /\ goOutcome' = Returned("undefined")
               /\ Identifier = "DONE"
               /\ currentStep.identifier = "DONE"
               /\ threw' = threw]_vars
    /\ (at # "idle") ~>
            (at = "idle" /\ (goOutcome.status = "threw"
                                \/ currentStep.identifier = "DONE"))

(* a first go with the gas manager ended at DONE after six handlers, none of
   them FILL_SCWALLET *)
C21_Witness ==
    /\ at = "idle"
    /\ goOutcome = Returned("undefined")
    /\ runsLeft = MaxRuns - 1
    /\ currentStep.identifier = "DONE"
    /\ visited = <<"INITIAL_STEP", "GET_ENTRYPOINT", "CREATE_SCWALLET", "MINT_NFT",
                   "CHECK_OP_COMPLETE", "STORE_SCWALLET">>

(* a first go without the gas manager ended at DONE after seven handlers,
   FILL_SCWALLET among them *)
WalletFilledByUser ==
    /\ at = "idle"
    /\ goOutcome = Returned("undefined")
    /\ runsLeft = MaxRuns - 1
    /\ currentStep.identifier = "DONE"
    /\ visited = <<"INITIAL_STEP", "GET_ENTRYPOINT", "CREATE_SCWALLET",
                   "FILL_SCWALLET", "MINT_NFT", "CHECK_OP_COMPLETE",
                   "STORE_SCWALLET">>

(* what the steps before the given one have added to the context *)
AddedBefore(identifier) ==
    CASE identifier = "INITIAL_STEP" -> {}
      [] identifier = "GET_ENTRYPOINT" -> {"owner"}
      [] identifier = "CREATE_SCWALLET" -> {"owner", "entrypointAddress"}
      [] identifier \in {"FILL_SCWALLET", "MINT_NFT"} ->
            {"owner", "entrypointAddress", "smartAccountAddress", "smartAccountSigner"}
      [] OTHER ->
            {"owner", "entrypointAddress", "smartAccountAddress", "smartAccountSigner",
             "mintDeployOpHash"}

TimedOut == Threw("Timedout waiting for contrat deployment and NFT mint.")

(* C22: onboarding resumes from the last successful step. When a handler
   throws, go rejects, no further handler is invoked until the next go, and
   the current step is the step whose handler failed, with everything the
   earlier steps added in its context; the next go starts from the current
   step, so a handler that has completed is not invoked again: in particular
   MINT_NFT, and its sendUserOperation, is invoked once however often
   CHECK_OP_COMPLETE fails afterwards *)
C22_ResumeFromFailedStep ==
    /\ [](/\ Running =>
                /\ currentStep = Val(inMemStep)
                /\ \A k \in AddedBefore(Identifier) : IsSet(Context[k])
          /\ \A id \in OnboardingStepIdentifier :
                /\ began[id] - threw[id] \in {0, 1}
                /\ began[id] - threw[id] = 1 =>
                      \/ Running /\ id \in {visited[k] : k \in 1..Len(visited)}
                      \/ id # currentStep.identifier
          /\ threw["MINT_NFT"] = 0 => began["MINT_NFT"] <= 1
          /\ at = "sendUserOperation" =>
                Identifier = "MINT_NFT" /\ began["MINT_NFT"] = threw["MINT_NFT"] + 1)
    /\ [][(RunEnds /\ goOutcome'.status = "threw") =>
            /\ currentStep' = currentStep
            /\ currentStep.identifier = visited'[Len(visited')]
            /\ threw' = [threw EXCEPT ![currentStep.identifier] = @ + 1]
            /\ began'[currentStep.identifier] = threw'[currentStep.identifier]
            /\ \A k \in AddedBefore(currentStep.identifier) :
                    IsSet(currentStep.context[k])]_vars
    /\ [][(at = "idle" /\ at' = "idle") => visited' = visited /\ began' \in {began, NoneBegun}]_vars
    /\ [][go => inMemStep' = Some(currentStep) /\ currentStep' = currentStep]_vars

(* CHECK_OP_COMPLETE timed out in the go before; this go has started from
   CHECK_OP_COMPLETE and its poll has found the receipt, MINT_NFT having been
   invoked once *)
C22_Witness ==
    /\ goOutcome = TimedOut
    /\ at = "then"
    /\ Identifier = "CHECK_OP_COMPLETE"
    /\ visited = <<"CHECK_OP_COMPLETE">>
    /\ threw["CHECK_OP_COMPLETE"] = 1
    /\ began["CHECK_OP_COMPLETE"] = 2
    /\ began["MINT_NFT"] = 1
    /\ IsSet(Context.mintDeployOpHash)

PollingSteps == {"FILL_SCWALLET", "CHECK_OP_COMPLETE"}

(* the retries the polling handler of the given step allows *)
RetriesOf(identifier) ==
    IF identifier = "FILL_SCWALLET" THEN FillMaxDurationSeconds
    ELSE DefaultTxnMaxDurationSeconds

LambdaFailed == {Threw("getBalance failed"), Threw("getUserOperationReceipt failed")}

(* a pollForLambdaForComplete call is in progress, or has just returned or
   thrown *)
Polling == at \in {"lambda", "setTimeout"}
PollReturned == at = "then" /\ Identifier \in PollingSteps
PollThrew == at = "idle" /\ attempts > 0

(* C23: pollForLambdaForComplete is bounded. It returns as soon as the lambda
   has answered true, every earlier answer having been false, and does not
   invoke the lambda again; it has waited once for every false answer; it
   throws the timeout error exactly when every attempt answered false, and
   then after txnMaxDurationSeconds retries of the first attempt, which no
   poll exceeds; an error of the lambda ends the poll at once as the go's
   error, without a wait and without being counted as a false answer *)
C23_BoundedPoll ==
    /\ [](/\ waits = falses - (IF at = "setTimeout" THEN 1 ELSE 0)
          /\ Polling =>
                /\ attempts = txnRetryCount + 1
                /\ attempts <= RetriesOf(Identifier) + 1
                /\ falses = attempts - (IF at = "lambda" THEN 1 ELSE 0)
          /\ PollReturned =>
                /\ reciept = Some(TRUE)
                /\ falses = attempts - 1
                /\ attempts <= RetriesOf(Identifier) + 1
          /\ PollThrew =>
                /\ currentStep.identifier \in PollingSteps
                /\ goOutcome = TimedOut <=> falses = attempts
                /\ goOutcome = TimedOut =>
                        attempts = RetriesOf(currentStep.identifier) + 1
                /\ goOutcome # TimedOut =>
                        /\ falses = attempts - 1
                        /\ attempts <= RetriesOf(currentStep.identifier) + 1
                        /\ attempts > 1 => goOutcome \in LambdaFailed)
    /\ [][at = "lambda" =>
            \/ reciept' = Some(TRUE) /\ at' = "then" /\ attempts' = attempts
            \/ reciept' = Some(FALSE) /\ at' = "setTimeout" /\ attempts' = attempts
            \/ /\ at' = "idle"
               /\ goOutcome' \in LambdaFailed
               /\ UNCHANGED <<attempts, falses, waits, reciept>>]_vars

(* CHECK_OP_COMPLETE's poll has thrown the timeout error after 21 attempts
   that found no receipt, each followed by a wait *)
C23_Witness ==
    /\ PollThrew
    /\ goOutcome = TimedOut
    /\ currentStep.identifier = "CHECK_OP_COMPLETE"
    /\ attempts = DefaultTxnMaxDurationSeconds + 1
    /\ falses = attempts
    /\ waits = attempts

(* FILL_SCWALLET's poll has returned on its last attempt, the 301st *)
FilledAtLastAttempt ==
    /\ PollReturned
    /\ Identifier = "FILL_SCWALLET"
    /\ attempts = FillMaxDurationSeconds + 1

(* the lambda failed on a retry and its error is the go's *)
LambdaFailedOnRetry ==
    /\ PollThrew
    /\ goOutcome \in LambdaFailed
    /\ attempts = 3 /\ falses = 2 /\ waits = 2

====
